---- MODULE Spec2Model ----
\* Review-assignment service of pr-reviewer-service: the service layer
\* (internal/service), the repositories it calls (internal/storage) and the
\* relational store they query (internal/data).
EXTENDS Integers, Sequences, FiniteSets, Bags, TLC

\* ------------------------------------------------------------------ bounds
\* Service calls made in one behaviour.
MaxCalls == 4

\* ------------------------------------------------------------ constants
reviewersPerPR == 2
StatusOpen == "OPEN"
StatusMerged == "MERGED"

\* ---------------------------------------------------------------- strings
\* A string is a sequence of one-character strings, so that trimming is
\* computed and not assumed.
SP == " "
RECURSIVE TrimLeft(_)
TrimLeft(s) == IF s # <<>> /\ Head(s) = SP THEN TrimLeft(Tail(s)) ELSE s
RECURSIVE TrimRight(_)
TrimRight(s) ==
  IF s # <<>> /\ s[Len(s)] = SP THEN TrimRight(SubSeq(s, 1, Len(s) - 1)) ELSE s
\* A trim that removes nothing.
TrimSpaceRemovingNothing(s) == s

TrimSpace(s) == TrimRight(TrimLeft(s))

Pad(s) == <<SP>> \o s \o <<SP>>
Blank == <<SP, SP>>

\* The identifiers requests are built from, in the order `order by user_id`
\* sorts them.
UserOrder == << <<"a">>, <<"b">>, <<"c">>, <<"d">> >>
UserIds == {UserOrder[i] : i \in 1..Len(UserOrder)}
TeamNames == {<<"x">>, <<"y">>}
PROrder == << <<"p">>, <<"q">> >>
PRIds == {PROrder[i] : i \in 1..Len(PROrder)}
TheTitle == <<"t">>
TheUsername == <<"n">>

\* ------------------------------------------------------------------ errors
NoErr == "ok"
ErrValidation == "validation error"
ErrTeamExists == "team already exists"
ErrTeamNotFound == "team not found"
ErrUserNotFound == "user not found"
ErrPRAuthorNotFound == "author not found"
ErrPRTeamNotFound == "pr team not found"
ErrPRAlreadyExists == "pull request already exists"
ErrPRNotFound == "pull request not found"
ErrPRMerged == "pull request already merged"
ErrReviewerNotAssigned == "reviewer not assigned"
ErrNoReplacement == "no replacement candidate"
ErrInternal == "internal error"
\* storage-level sentinels
StErrTeamExists == "storage: team exists"
StErrUserNotFound == "storage: user not found"
StErrNoCandidate == "storage: no active candidate"
StErrPRExists == "storage: pr already exists"
StErrPRNotFound == "storage: pr not found"
StErrReviewerNotAssigned == "storage: reviewer not assigned"
StErrUnique == "storage: unique violation"

\* ------------------------------------------------------------------- state
VARIABLES
  teams,                   \* table teams: set of names
  users,                   \* table users: set of rows, key id
  pull_requests,           \* table pull_requests: set of rows, key id
  pull_requests_reviewers, \* table pull_requests_reviewers: bag of rows
  last,                    \* the service call that returned last
  before,                  \* the tables as that call found them
  calls,                   \* number of service calls made
  loc                      \* the locals of each call being served

vars == <<teams, users, pull_requests, pull_requests_reviewers, last, before,
          calls, loc>>

DB == [teams |-> teams, users |-> users, prs |-> pull_requests,
       revs |-> pull_requests_reviewers]

EmptyDB == [teams |-> {}, users |-> {}, prs |-> {}, revs |-> EmptyBag]

\* ------------------------------------------------------------ row writes
\* A statement's effect is a sequence of row writes; a transaction's view is
\* the committed tables with its own writes applied (storage/execer.go picks
\* the transaction of the context when there is one).
WTeam(name) == [t |-> "teams", k |-> "ins", key |-> <<name>>, row |-> [name |-> name]]
WUser(row) == [t |-> "users", k |-> "put", key |-> <<row.id>>, row |-> row]
WPR(row) == [t |-> "prs", k |-> "put", key |-> <<row.id>>, row |-> row]
WRevIns(row) ==
  [t |-> "revs", k |-> "ins", key |-> <<row.pull_request_id, row.user_id>>, row |-> row]
WRevDel(row) ==
  [t |-> "revs", k |-> "del", key |-> <<row.pull_request_id, row.user_id>>, row |-> row]

BagWithout(b, row) == [r \in (DOMAIN b) \ {row} |-> b[r]]

Apply(db, w) ==
  CASE w.t = "teams" -> [db EXCEPT !.teams = @ \cup {w.row.name}]
    [] w.t = "users" ->
         [db EXCEPT !.users = {u \in @ : u.id # w.row.id} \cup {w.row}]
    [] w.t = "prs" ->
         [db EXCEPT !.prs = {p \in @ : p.id # w.row.id} \cup {w.row}]
    [] w.t = "revs" /\ w.k = "ins" ->
         [db EXCEPT !.revs = @ (+) SetToBag({w.row})]
    [] w.t = "revs" /\ w.k = "del" ->
         [db EXCEPT !.revs = BagWithout(@, w.row)]

RECURSIVE ApplyAll(_, _)
ApplyAll(db, ws) ==
  IF ws = <<>> THEN db ELSE ApplyAll(Apply(db, Head(ws)), Tail(ws))

\* ------------------------------------------------------- storage: users
NoUser == [id |-> <<>>, username |-> <<>>, team_name |-> <<>>, is_active |-> FALSE]

Min(a, b) == IF a < b THEN a ELSE b

\* Position of an identifier in the collation `order by user_id` uses.
IdRank(id) == CHOOSE i \in 1..Len(UserOrder) : UserOrder[i] = id

\* The injective sequences of length n over the set S: the orders in which
\* `order by random() limit n` can return n of the rows S.
Samples(S, n) ==
  {s \in [1..n -> S] : \A i, j \in 1..n : i # j => s[i] # s[j]}

\* UserStorage.UpsertUser: insert ... on conflict (id) do update.
UpsertUser(db, u, teamName) ==
  LET row == [id |-> u.id, username |-> u.username, team_name |-> teamName,
              is_active |-> u.is_active]
  IN [err |-> NoErr, w |-> <<WUser(row)>>, locks |-> {<<"users", u.id>>}]

\* The update with `where team_name = (the user's team)`: the flag is set on
\* every user of the team.
SetUserActiveForTeam(db, userID, isActive) ==
  LET rows == {u \in db.users : u.id = userID}
      RECURSIVE Writes(_)
      Writes(S) ==
        IF S = {} THEN <<>>
        ELSE LET u == CHOOSE r \in S : TRUE
             IN <<WUser([u EXCEPT !.is_active = isActive])>> \o Writes(S \ {u})
  IN IF rows = {}
     THEN [err |-> StErrUserNotFound, w |-> <<>>, locks |-> {}, user |-> NoUser]
     ELSE LET u == CHOOSE r \in rows : TRUE
              mates == {m \in db.users : m.team_name = u.team_name}
          IN [err |-> NoErr, w |-> Writes(mates),
              locks |-> {<<"users", m.id>> : m \in mates},
              user |-> [u EXCEPT !.is_active = isActive]]

\* UserStorage.SetUserActive: update users set is_active = $1 where id = $2
\* returning the row; no row is ErrUserNotFound.
StorageSetUserActive(db, userID, isActive) ==
  LET rows == {u \in db.users : u.id = userID}
  IN IF rows = {}
     THEN [err |-> StErrUserNotFound, w |-> <<>>, locks |-> {}, user |-> NoUser]
     ELSE LET u == [(CHOOSE r \in rows : TRUE) EXCEPT !.is_active = isActive]
          IN [err |-> NoErr, w |-> <<WUser(u)>>, locks |-> {<<"users", userID>>},
              user |-> u]

\* A lookup that reports no missing row: an unknown id comes back as a user
\* of team x.
GetUserWithTeamNeverMissing(db, userID) ==
  LET rows == {u \in db.users : u.id = userID}
  IN IF rows = {}
     THEN [err |-> NoErr,
           user |-> [NoUser EXCEPT !.id = userID, !.team_name = <<"x">>]]
     ELSE [err |-> NoErr, user |-> CHOOSE r \in rows : TRUE]

\* UserStorage.GetUserWithTeam: select ... from users where id = $1.
GetUserWithTeam(db, userID) ==
  LET rows == {u \in db.users : u.id = userID}
  IN IF rows = {}
     THEN [err |-> StErrUserNotFound, user |-> NoUser]
     ELSE [err |-> NoErr, user |-> CHOOSE r \in rows : TRUE]

\* The selection without `is_active`: inactive teammates are candidates.
ActiveTeammatesAnyActivity(db, teamName, excludeUserID) ==
  {u.id : u \in {r \in db.users : r.team_name = teamName /\ r.id # excludeUserID}}

\* The selection without `id <> $2`: the author is a candidate too.
ActiveTeammatesWithAuthor(db, teamName, excludeUserID) ==
  {u.id : u \in {r \in db.users : r.team_name = teamName /\ r.is_active}}

\* What the where clause of GetActiveTeammates selects.
ActiveTeammates(db, teamName, excludeUserID) ==
  {u.id : u \in {r \in db.users :
                   r.team_name = teamName /\ r.is_active /\ r.id # excludeUserID}}

\* UserStorage.GetActiveTeammates: every list the query can return, i.e. any
\* Min(limit, n) distinct rows of the selection in any order.
GetActiveTeammates(db, teamName, excludeUserID, limit) ==
  IF limit <= 0 THEN {<<>>}
  ELSE LET S == ActiveTeammates(db, teamName, excludeUserID)
       IN Samples(S, Min(limit, Cardinality(S)))

\* The identifiers GetRandomActiveTeammate puts in its `not in` list: trimmed,
\* blanks dropped, duplicates dropped.
UniqueExclude(excludeIDs) == {TrimSpace(id) : id \in excludeIDs} \ {<<>>}

\* The selection without its `id not in (...)` condition.
ReplacementCandidatesUnfiltered(db, teamName, excludeIDs) ==
  {u.id : u \in {r \in db.users : r.team_name = teamName /\ r.is_active}}

\* What the where clause of GetRandomActiveTeammate selects.
ReplacementCandidates(db, teamName, excludeIDs) ==
  {u.id : u \in {r \in db.users :
                   r.team_name = teamName /\ r.is_active
                   /\ r.id \notin UniqueExclude(excludeIDs)}}

\* UserStorage.GetRandomActiveTeammate: every result the query can give.
GetRandomActiveTeammate(db, teamName, excludeIDs) ==
  LET S == ReplacementCandidates(db, teamName, excludeIDs)
  IN IF S = {} THEN {[err |-> StErrNoCandidate, id |-> <<>>]}
     ELSE {[err |-> NoErr, id |-> c] : c \in S}

\* The update without `team_name = $1`: every active user is deactivated.
DeactivateAllUsers(db, teamName) ==
  LET rows == {u \in db.users : u.is_active}
      RECURSIVE Writes(_)
      Writes(S) ==
        IF S = {} THEN <<>>
        ELSE LET u == CHOOSE r \in S : TRUE
             IN <<WUser([u EXCEPT !.is_active = FALSE])>> \o Writes(S \ {u})
  IN [err |-> NoErr, w |-> Writes(rows),
      locks |-> {<<"users", u.id>> : u \in rows}, count |-> Cardinality(rows)]

\* UserStorage.DeactivateTeamUsers:
\* update users set is_active = false where team_name = $1 and is_active.
StorageDeactivateTeamUsers(db, teamName) ==
  LET rows == {u \in db.users : u.team_name = teamName /\ u.is_active}
      RECURSIVE Writes(_)
      Writes(S) ==
        IF S = {} THEN <<>>
        ELSE LET u == CHOOSE r \in S : TRUE
             IN <<WUser([u EXCEPT !.is_active = FALSE])>> \o Writes(S \ {u})
  IN [err |-> NoErr, w |-> Writes(rows),
      locks |-> {<<"users", u.id>> : u \in rows}, count |-> Cardinality(rows)]

\* ------------------------------------------------------- storage: teams
\* An insert that reports a row inserted whether or not the name was taken.
StorageCreateTeamAgain(db, name) ==
  [err |-> NoErr, w |-> <<WTeam(name)>>, locks |-> {<<"teams", name>>}]

\* TeamStorage.CreateTeam: insert ... on conflict (name) do nothing; no row
\* inserted is ErrTeamExists.
StorageCreateTeam(db, name) ==
  IF name \in db.teams
  THEN [err |-> StErrTeamExists, w |-> <<>>, locks |-> {<<"teams", name>>}]
  ELSE [err |-> NoErr, w |-> <<WTeam(name)>>, locks |-> {<<"teams", name>>}]

\* TeamStorage.ExistsTeam: select exists(select 1 from teams where name = $1).
ExistsTeam(db, name) == name \in db.teams

\* --------------------------------------------------------- storage: PRs
NoPR == [ID |-> <<>>, Title |-> <<>>, AuthorID |-> <<>>, Status |-> "",
         Reviewers |-> <<>>, NeedMoreReviewers |-> FALSE]

\* An insert that replaces the row of a taken id instead of failing.
StorageCreatePROverwriting(db, pr) ==
  [err |-> NoErr,
   w |-> <<WPR([id |-> pr.ID, title |-> pr.Title, author_id |-> pr.AuthorID,
                status |-> pr.Status])>>,
   locks |-> {<<"prs", pr.ID>>},
   pr |-> [NoPR EXCEPT !.ID = pr.ID, !.Title = pr.Title,
                       !.AuthorID = pr.AuthorID, !.Status = pr.Status]]

\* PRStorage.CreatePR: insert into pull_requests; a taken id is ErrPRExists.
\* The struct returned has no reviewers and NeedMoreReviewers unset.
StorageCreatePR(db, pr) ==
  IF \E p \in db.prs : p.id = pr.ID
  THEN [err |-> StErrPRExists, w |-> <<>>, locks |-> {<<"prs", pr.ID>>}, pr |-> NoPR]
  ELSE [err |-> NoErr,
        w |-> <<WPR([id |-> pr.ID, title |-> pr.Title, author_id |-> pr.AuthorID,
                     status |-> pr.Status])>>,
        locks |-> {<<"prs", pr.ID>>},
        pr |-> [NoPR EXCEPT !.ID = pr.ID, !.Title = pr.Title,
                            !.AuthorID = pr.AuthorID, !.Status = pr.Status]]

\* The table without its primary key: no row is ever refused.
ReviewerKeyNeverTaken(db, row) == FALSE

\* The primary key (pull_request_id, user_id) of pull_requests_reviewers.
ReviewerKeyTaken(db, row) == BagIn(row, db.revs)

\* One insert into pull_requests_reviewers, as AddReviewers and
\* ReplaceReviewer issue it.
InsertReviewer(db, prID, userID) ==
  LET row == [pull_request_id |-> prID, user_id |-> userID]
  IN IF ReviewerKeyTaken(db, row)
     THEN [err |-> StErrUnique, w |-> <<>>, locks |-> {<<"revs", prID, userID>>}]
     ELSE [err |-> NoErr, w |-> <<WRevIns(row)>>, locks |-> {<<"revs", prID, userID>>}]

\* A ReplaceReviewer that inserts without deleting.
DeleteReviewerKeepingRow(db, prID, userID) ==
  [err |-> NoErr, w |-> <<>>, locks |-> {}]

\* A delete that does not look at the number of rows it deleted.
DeleteReviewerUnchecked(db, prID, userID) ==
  LET row == [pull_request_id |-> prID, user_id |-> userID]
  IN IF ~BagIn(row, db.revs)
     THEN [err |-> NoErr, w |-> <<>>, locks |-> {}]
     ELSE [err |-> NoErr, w |-> <<WRevDel(row)>>, locks |-> {<<"revs", prID, userID>>}]

\* The delete of ReplaceReviewer; no row deleted is ErrReviewerNotAssigned.
DeleteReviewer(db, prID, userID) ==
  LET row == [pull_request_id |-> prID, user_id |-> userID]
  IN IF ~BagIn(row, db.revs)
     THEN [err |-> StErrReviewerNotAssigned, w |-> <<>>, locks |-> {}]
     ELSE [err |-> NoErr, w |-> <<WRevDel(row)>>, locks |-> {<<"revs", prID, userID>>}]

\* PRStorage.GetPR, second query:
\* select user_id from pull_requests_reviewers where pull_request_id = $1
\* order by user_id.
RECURSIVE Repeat(_, _)
Repeat(x, n) == IF n = 0 THEN <<>> ELSE <<x>> \o Repeat(x, n - 1)
RECURSIVE ReviewersFrom(_, _, _)
ReviewersFrom(db, prID, i) ==
  IF i > Len(UserOrder) THEN <<>>
  ELSE Repeat(UserOrder[i],
              CopiesIn([pull_request_id |-> prID, user_id |-> UserOrder[i]], db.revs))
       \o ReviewersFrom(db, prID, i + 1)
GetPRReviewers(db, prID) == ReviewersFrom(db, prID, 1)

\* PRStorage.GetPR, first query: the pull_requests row joined with its status.
GetPRRow(db, prID) ==
  LET rows == {p \in db.prs : p.id = prID}
  IN IF rows = {} THEN [err |-> StErrPRNotFound, pr |-> NoPR]
     ELSE LET p == CHOOSE r \in rows : TRUE
          IN [err |-> NoErr,
              pr |-> [NoPR EXCEPT !.ID = p.id, !.Title = p.title,
                                  !.AuthorID = p.author_id, !.Status = p.status]]

\* PRStorage.UpdatePRStatus: update pull_requests set status_id = ... where
\* id = $1; no row updated is ErrPRNotFound.
UpdatePRStatus(db, prID, status) ==
  LET rows == {p \in db.prs : p.id = prID}
  IN IF rows = {} THEN [err |-> StErrPRNotFound, w |-> <<>>, locks |-> {}]
     ELSE [err |-> NoErr,
           w |-> <<WPR([(CHOOSE r \in rows : TRUE) EXCEPT !.status = status])>>,
           locks |-> {<<"prs", prID>>}]

\* UserStorage.GetUsersByTeam: select id, username, is_active from users where
\* team_name = $1, with no order by: the rows, in no particular order.
GetUsersByTeam(db, teamName) ==
  {[id |-> u.id, username |-> u.username, is_active |-> u.is_active] :
     u \in {r \in db.users : r.team_name = teamName}}

\* PRStorage.GetReviewerPRs: the pull requests joined with the reviewer rows
\* of the user, order by pr.id.
RECURSIVE ReviewerPRsFrom(_, _, _)
ReviewerPRsFrom(db, userID, i) ==
  IF i > Len(PROrder) THEN <<>>
  ELSE LET rows == {p \in db.prs : p.id = PROrder[i]}
           n == CopiesIn([pull_request_id |-> PROrder[i], user_id |-> userID],
                         db.revs)
       IN (IF rows = {} THEN <<>>
           ELSE LET p == CHOOSE r \in rows : TRUE
                IN Repeat([ID |-> p.id, Title |-> p.title, AuthorID |-> p.author_id,
                           Status |-> p.status], n))
          \o ReviewerPRsFrom(db, userID, i + 1)
\* The query without `where r.user_id = $1`: every stored pull request.
GetReviewerPRsOfAnyone(db, userID) ==
  LET ids == SelectSeq(PROrder, LAMBDA id : \E p \in db.prs : p.id = id)
  IN [i \in 1..Len(ids) |->
        LET p == CHOOSE r \in db.prs : r.id = ids[i]
        IN [ID |-> p.id, Title |-> p.title, AuthorID |-> p.author_id,
            Status |-> p.status]]

GetReviewerPRs(db, userID) == ReviewerPRsFrom(db, userID, 1)

\* Position of a pull request id in the collation of `order by`.
PRRank(id) == CHOOSE i \in 1..Len(PROrder) : PROrder[i] = id

\* `order by <count> desc, <id>`: the groups S, records [id, rank, n], by n
\* descending and then by id ascending.
RECURSIVE OrderedByCount(_)
OrderedByCount(S) ==
  IF S = {} THEN <<>>
  ELSE LET first == CHOOSE g \in S :
                      \A h \in S : g.n > h.n \/ (g.n = h.n /\ g.rank <= h.rank)
       IN <<first>> \o OrderedByCount(S \ {first})

\* How many rows of the reviewer table have the value v in column col.
RECURSIVE RowCount(_, _)
RowCount(b, rows) ==
  IF rows = {} THEN 0
  ELSE LET r == CHOOSE x \in rows : TRUE
       IN CopiesIn(r, b) + RowCount(b, rows \ {r})

\* The first query with `select distinct user_id, 1`: every reviewer is
\* reported with one assignment.
StatsByUserCountingOne(db) ==
  LET ids == {r.user_id : r \in BagToSet(db.revs)}
      sorted == OrderedByCount({[id |-> id, rank |-> IdRank(id), n |-> 1] : id \in ids})
  IN [i \in 1..Len(sorted) |-> [UserID |-> sorted[i].id, Assignments |-> sorted[i].n]]

\* PRStorage.GetAssignmentsStats, first query: select user_id, count(*) from
\* pull_requests_reviewers group by user_id order by assignments desc, user_id.
StatsByUser(db) ==
  LET ids == {r.user_id : r \in BagToSet(db.revs)}
      groups == {[id |-> id, rank |-> IdRank(id),
                  n |-> RowCount(db.revs, {r \in BagToSet(db.revs) : r.user_id = id})] :
                   id \in ids}
      sorted == OrderedByCount(groups)
  IN [i \in 1..Len(sorted) |-> [UserID |-> sorted[i].id, Assignments |-> sorted[i].n]]

\* PRStorage.GetAssignmentsStats, second query: select pull_request_id,
\* count(*) ... group by pull_request_id order by reviewers desc,
\* pull_request_id.
StatsByPR(db) ==
  LET ids == {r.pull_request_id : r \in BagToSet(db.revs)}
      groups == {[id |-> id, rank |-> PRRank(id),
                  n |-> RowCount(db.revs,
                                 {r \in BagToSet(db.revs) : r.pull_request_id = id})] :
                   id \in ids}
      sorted == OrderedByCount(groups)
  IN [i \in 1..Len(sorted) |-> [PullRequestID |-> sorted[i].id,
                                 Reviewers |-> sorted[i].n]]

\* ------------------------------------------------- a service call's locals
\* The local variables of one service call: its arguments as the caller gave
\* them (given) and as it trimmed them, what it has
\* read, the writes of its open transaction (w), the row locks its latest
\* statement needs (locks), the repository methods it has called (repo) and
\* what it returns (err, pr, replacement, user, count, members); fault is the
\* member upsert of the call that the database fails (0: none does).
NewCall(op) ==
  [op |-> op, pc |-> "validate", err |-> NoErr, intx |-> FALSE,
   committed |-> FALSE, given |-> <<>>,
   prID |-> <<>>, title |-> <<>>, userID |-> <<>>, teamName |-> <<>>,
   isActive |-> FALSE, members |-> <<>>,
   user |-> NoUser, pr |-> NoPR, read |-> <<>>, reviewers |-> <<>>,
   needMore |-> FALSE, replacement |-> <<>>, i |-> 1, count |-> 0,
   teamUsers |-> {}, reviews |-> <<>>, byUser |-> <<>>, byPR |-> <<>>,
   w |-> <<>>, locks |-> {}, repo |-> <<>>, fault |-> 0]

\* A validation failure: returned before tx.Run is entered.
Fail(l, e) == [l EXCEPT !.err = e, !.pc = "done", !.locks = {}]
\* The work function returns an error: TxManagerSQL.Run rolls back.
Abort(l, e) == [l EXCEPT !.err = e, !.pc = "rollback"]
\* The work function returns nil: TxManagerSQL.Run commits.
Succeed(l) == [l EXCEPT !.pc = "commit"]
\* tx.Run is entered: BeginTx, the transaction is put in the context.
Enter(l, pc) == [l EXCEPT !.pc = pc, !.intx = TRUE, !.locks = {}]
\* A statement ran: its writes join the transaction's, its locks are taken.
Ran(l, r, name) ==
  [l EXCEPT !.w = @ \o r.w, !.locks = r.locks, !.repo = Append(@, name)]
\* A query ran: nothing written, nothing locked.
Asked(l, name) == [l EXCEPT !.locks = {}, !.repo = Append(@, name)]

\* A Run whose rollback leaves the writes of the transaction in place.
TxRunStepKeepingWrites(l) ==
  CASE l.pc = "commit" ->
         {[l EXCEPT !.pc = "done", !.committed = TRUE, !.locks = {}]}
    [] l.pc = "rollback" ->
         {[l EXCEPT !.pc = "done", !.committed = FALSE, !.locks = {}]}

\* TxManagerSQL.Run after the work function: commit when it returned nil,
\* rollback when it returned an error.
TxRunStep(l) ==
  CASE l.pc = "commit" ->
         {[l EXCEPT !.pc = "done", !.committed = TRUE, !.locks = {}]}
    [] l.pc = "rollback" ->
         {[l EXCEPT !.pc = "done", !.committed = FALSE, !.w = <<>>, !.locks = {}]}

\* ------------------------------------------------------ TeamService
NilMember == [nil |-> TRUE, id |-> <<>>, username |-> <<>>, is_active |-> FALSE]
Member(id, username, active) ==
  [nil |-> FALSE, id |-> id, username |-> username, is_active |-> active]

\* A member loop that drops no duplicate.
RECURSIVE NormalizeMembersKeepingDuplicates(_, _, _)
NormalizeMembersKeepingDuplicates(ms, seen, uniq) ==
  IF ms = <<>> THEN [err |-> NoErr, uniq |-> uniq]
  ELSE LET m == Head(ms)
           id == TrimSpace(m.id)
           un == TrimSpace(m.username)
       IN IF m.nil THEN NormalizeMembersKeepingDuplicates(Tail(ms), seen, uniq)
          ELSE IF id = <<>> \/ un = <<>> THEN [err |-> ErrValidation, uniq |-> <<>>]
          ELSE NormalizeMembersKeepingDuplicates(
                 Tail(ms), seen, Append(uniq, Member(id, un, m.is_active)))

\* The member loop of CreateTeam: nil entries skipped, id and username
\* trimmed, a blank one is a validation error, later duplicates of an id
\* dropped.
RECURSIVE NormalizeMembers(_, _, _)
NormalizeMembers(ms, seen, uniq) ==
  IF ms = <<>> THEN [err |-> NoErr, uniq |-> uniq]
  ELSE LET m == Head(ms)
           id == TrimSpace(m.id)
           un == TrimSpace(m.username)
       IN IF m.nil THEN NormalizeMembers(Tail(ms), seen, uniq)
          ELSE IF id = <<>> \/ un = <<>> THEN [err |-> ErrValidation, uniq |-> <<>>]
          ELSE IF id \in seen THEN NormalizeMembers(Tail(ms), seen, uniq)
          ELSE NormalizeMembers(Tail(ms), seen \cup {id},
                                Append(uniq, Member(id, un, m.is_active)))

\* TeamService.CreateTeam, one statement at a time.
CreateTeamStep(v, l) ==
  CASE l.pc = "validate" ->
         LET name == TrimSpace(l.teamName)
             n == NormalizeMembers(l.members, {}, <<>>)
         IN IF name = <<>> THEN {Fail(l, ErrValidation)}
            ELSE IF n.err # NoErr THEN {Fail([l EXCEPT !.teamName = name], n.err)}
            ELSE {Enter([l EXCEPT !.teamName = name, !.members = n.uniq],
                        "CreateTeam")}
    [] l.pc = "CreateTeam" ->
         LET r == StorageCreateTeam(v, l.teamName)
             l2 == Ran(l, r, "CreateTeam")
         IN IF r.err = StErrTeamExists THEN {Abort(l2, ErrTeamExists)}
            ELSE IF l.members = <<>> THEN {Succeed(l2)}
            ELSE {[l2 EXCEPT !.pc = "UpsertUser", !.i = 1]}
    [] l.pc = "UpsertUser" ->
         LET r == UpsertUser(v, l.members[l.i], l.teamName)
             l2 == Ran(l, r, "UpsertUser")
         IN IF l.fault = l.i THEN {Abort(Asked(l, "UpsertUser"), ErrInternal)}
            ELSE IF l.i = Len(l.members) THEN {Succeed(l2)}
            ELSE {[l2 EXCEPT !.i = l.i + 1]}
    [] OTHER -> TxRunStep(l)

\* TeamService.DeactivateTeamUsers, one statement at a time.
DeactivateTeamUsersStep(v, l) ==
  CASE l.pc = "validate" ->
         LET name == TrimSpace(l.teamName)
         IN IF name = <<>> THEN {Fail(l, ErrValidation)}
            ELSE {Enter([l EXCEPT !.teamName = name], "ExistsTeam")}
    [] l.pc = "ExistsTeam" ->
         IF ~ExistsTeam(v, l.teamName)
         THEN {Abort(Asked(l, "ExistsTeam"), ErrTeamNotFound)}
         ELSE {[Asked(l, "ExistsTeam") EXCEPT !.pc = "DeactivateTeamUsers"]}
    [] l.pc = "DeactivateTeamUsers" ->
         LET r == StorageDeactivateTeamUsers(v, l.teamName)
         IN {[Succeed(Ran(l, r, "DeactivateTeamUsers")) EXCEPT !.count = r.count]}
    [] OTHER -> TxRunStep(l)

\* ------------------------------------------------------ UserService
\* UserService.SetUserActive: one statement, outside any transaction.
SetUserActiveStep(v, l) ==
  CASE l.pc = "validate" ->
         LET id == TrimSpace(l.userID)
         IN IF id = <<>> THEN {Fail(l, ErrValidation)}
            ELSE {[l EXCEPT !.userID = id, !.pc = "SetUserActive", !.locks = {}]}
    [] l.pc = "SetUserActive" ->
         LET r == StorageSetUserActive(v, l.userID, l.isActive)
             l2 == Ran(l, r, "SetUserActive")
         IN IF r.err = StErrUserNotFound
            THEN {[l2 EXCEPT !.err = ErrUserNotFound, !.pc = "done"]}
            ELSE {[l2 EXCEPT !.user = r.user, !.pc = "done"]}

\* -------------------------------------------------------- PRService
\* MergePR without its idempotent path.
NeverAlreadyMerged(pr) == FALSE

\* MergePR's test for the idempotent path: pr.Status == models.StatusMerged.
AlreadyMerged(pr) == pr.Status = StatusMerged

\* ReassignReviewer without its guard on the status.
NeverRefused(pr) == FALSE

\* ReassignReviewer's guard: pr.Status == models.StatusMerged.
ReassignRefused(pr) == pr.Status = StatusMerged

\* ReassignReviewer without its test of the old reviewer.
AssignedUnchecked(pr, oldReviewerID) == TRUE

\* ReassignReviewer's test slices.Contains(pr.Reviewers, oldReviewerID).
Assigned(pr, oldReviewerID) ==
  \E i \in 1..Len(pr.Reviewers) : pr.Reviewers[i] = oldReviewerID

\* ReassignReviewer's exclusion list: the old reviewer and every reviewer
\* read from the PR.
ExcludeIDs(pr, oldReviewerID) ==
  {oldReviewerID} \cup {pr.Reviewers[i] : i \in 1..Len(pr.Reviewers)}

\* A flag raised only when no reviewer was found.
NeedMoreWhenNone(reviewers) == Len(reviewers) = 0

\* CreatePR's flag: len(reviewers) < reviewersPerPR.
NeedMore(reviewers) == Len(reviewers) < reviewersPerPR

\* ReassignReviewer's update of the list it read: the first occurrence of
\* the old id is overwritten by the replacement.
ReplaceInPlace(rs, old, new) ==
  IF \E i \in 1..Len(rs) : rs[i] = old
  THEN LET k == CHOOSE i \in 1..Len(rs) :
                  rs[i] = old /\ \A j \in 1..(i - 1) : rs[j] # old
       IN [rs EXCEPT ![k] = new]
  ELSE rs

\* PRService.CreatePR, one statement at a time.
CreatePRStep(v, l) ==
  CASE l.pc = "validate" ->
         LET prID == TrimSpace(l.prID)
             title == TrimSpace(l.title)
             authorID == TrimSpace(l.userID)
             l2 == [l EXCEPT !.prID = prID, !.title = title, !.userID = authorID]
         IN IF prID = <<>> \/ title = <<>> \/ authorID = <<>>
            THEN {Fail(l2, ErrValidation)}
            ELSE {Enter(l2, "GetUserWithTeam")}
    [] l.pc = "GetUserWithTeam" ->
         LET r == GetUserWithTeam(v, l.userID)
             l2 == Asked(l, "GetUserWithTeam")
         IN IF r.err = StErrUserNotFound THEN {Abort(l2, ErrPRAuthorNotFound)}
            ELSE IF TrimSpace(r.user.team_name) = <<>>
                 THEN {Abort(l2, ErrPRTeamNotFound)}
            ELSE {[l2 EXCEPT !.user = r.user,
                             !.teamName = TrimSpace(r.user.team_name),
                             !.pc = "GetActiveTeammates"]}
    [] l.pc = "GetActiveTeammates" ->
         {[Asked(l, "GetActiveTeammates")
             EXCEPT !.reviewers = tm, !.needMore = NeedMore(tm), !.pc = "CreatePR"]
            : tm \in GetActiveTeammates(v, l.teamName, l.user.id, reviewersPerPR)}
    [] l.pc = "CreatePR" ->
         LET r == StorageCreatePR(v, [NoPR EXCEPT !.ID = l.prID, !.Title = l.title,
                                        !.AuthorID = l.user.id, !.Status = StatusOpen,
                                        !.NeedMoreReviewers = l.needMore])
             l2 == Ran(l, r, "CreatePR")
         IN IF r.err = StErrPRExists THEN {Abort(l2, ErrPRAlreadyExists)}
            ELSE IF l.reviewers = <<>>
                 THEN {Succeed([l2 EXCEPT !.pr = [r.pr EXCEPT
                                            !.Reviewers = l.reviewers,
                                            !.NeedMoreReviewers = l.needMore],
                                          !.repo = Append(@, "AddReviewers")])}
            ELSE {[l2 EXCEPT !.pr = r.pr, !.pc = "AddReviewers", !.i = 1,
                             !.repo = Append(@, "AddReviewers")]}
    [] l.pc = "AddReviewers" ->
         LET r == InsertReviewer(v, l.pr.ID, l.reviewers[l.i])
             l2 == [l EXCEPT !.w = @ \o r.w, !.locks = r.locks]
         IN IF r.err # NoErr THEN {Abort(l2, ErrInternal)}
            ELSE IF l.i = Len(l.reviewers)
                 THEN {Succeed([l2 EXCEPT !.pr = [@ EXCEPT
                                            !.Reviewers = l.reviewers,
                                            !.NeedMoreReviewers = l.needMore]])}
            ELSE {[l2 EXCEPT !.i = l.i + 1]}
    [] OTHER -> TxRunStep(l)

\* PRStorage.GetPR as both services call it first: the row, then the
\* reviewers; pcNext is where the caller goes on.
GetPRSteps(v, l) ==
  CASE l.pc = "GetPR" ->
         LET r == GetPRRow(v, l.prID)
             l2 == Asked(l, "GetPR")
         IN IF r.err = StErrPRNotFound THEN {Abort(l2, ErrPRNotFound)}
            ELSE {[l2 EXCEPT !.pr = r.pr, !.pc = "GetPR.reviewers",
                             !.repo = l.repo]}
    [] l.pc = "GetPR.reviewers" ->
         LET rs == GetPRReviewers(v, l.prID)
         IN {[Asked(l, "GetPR") EXCEPT !.pr = [@ EXCEPT !.Reviewers = rs],
                                       !.read = rs, !.pc = "GotPR"]}

\* PRService.MergePR, one statement at a time.
MergePRStep(v, l) ==
  CASE l.pc = "validate" ->
         LET prID == TrimSpace(l.prID)
         IN IF prID = <<>> THEN {Fail(l, ErrValidation)}
            ELSE {Enter([l EXCEPT !.prID = prID], "GetPR")}
    [] l.pc \in {"GetPR", "GetPR.reviewers"} ->
         {IF l2.pc # "GotPR" THEN l2
          ELSE IF AlreadyMerged(l2.pr) THEN Succeed(l2)
          ELSE [l2 EXCEPT !.pc = "UpdatePRStatus"] : l2 \in GetPRSteps(v, l)}
    [] l.pc = "UpdatePRStatus" ->
         LET r == UpdatePRStatus(v, l.prID, StatusMerged)
             l2 == Ran(l, r, "UpdatePRStatus")
         IN IF r.err # NoErr THEN {Abort(l2, ErrInternal)}
            ELSE {Succeed([l2 EXCEPT !.pr = [@ EXCEPT !.Status = StatusMerged]])}
    [] OTHER -> TxRunStep(l)

\* The two checks the other way round: the assignment first, then the
\* status.
FirstRefusalAssignmentFirst(pr, oldReviewerID) ==
  IF ~Assigned(pr, oldReviewerID) THEN ErrReviewerNotAssigned
  ELSE IF ReassignRefused(pr) THEN ErrPRMerged
  ELSE NoErr

\* What ReassignReviewer checks on the pull request it read, in the order of
\* the code: the status, then the assignment of the old reviewer.
FirstRefusal(pr, oldReviewerID) ==
  IF ReassignRefused(pr) THEN ErrPRMerged
  ELSE IF ~Assigned(pr, oldReviewerID) THEN ErrReviewerNotAssigned
  ELSE NoErr

\* PRService.ReassignReviewer, one statement at a time.
ReassignReviewerStep(v, l) ==
  CASE l.pc = "validate" ->
         LET prID == TrimSpace(l.prID)
             old == TrimSpace(l.userID)
             l2 == [l EXCEPT !.prID = prID, !.userID = old]
         IN IF prID = <<>> \/ old = <<>> THEN {Fail(l2, ErrValidation)}
            ELSE {Enter(l2, "GetPR")}
    [] l.pc \in {"GetPR", "GetPR.reviewers"} ->
         {IF l2.pc # "GotPR" THEN l2
          ELSE IF FirstRefusal(l2.pr, l.userID) # NoErr
               THEN Abort(l2, FirstRefusal(l2.pr, l.userID))
          ELSE [l2 EXCEPT !.pc = "GetUserWithTeam"] : l2 \in GetPRSteps(v, l)}
    [] l.pc = "GetUserWithTeam" ->
         LET r == GetUserWithTeam(v, l.userID)
             l2 == Asked(l, "GetUserWithTeam")
         IN IF r.err = StErrUserNotFound THEN {Abort(l2, ErrUserNotFound)}
            ELSE IF TrimSpace(r.user.team_name) = <<>>
                 THEN {Abort(l2, ErrPRTeamNotFound)}
            ELSE {[l2 EXCEPT !.user = r.user,
                             !.teamName = TrimSpace(r.user.team_name),
                             !.pc = "GetRandomActiveTeammate"]}
    [] l.pc = "GetRandomActiveTeammate" ->
         {IF r.err = StErrNoCandidate
          THEN Abort(Asked(l, "GetRandomActiveTeammate"), ErrNoReplacement)
          ELSE [Asked(l, "GetRandomActiveTeammate")
                  EXCEPT !.replacement = r.id, !.pc = "ReplaceReviewer"]
            : r \in GetRandomActiveTeammate(v, l.teamName, ExcludeIDs(l.pr, l.userID))}
    [] l.pc = "ReplaceReviewer" ->
         LET r == DeleteReviewer(v, l.prID, l.userID)
             l2 == Ran(l, r, "ReplaceReviewer")
         IN IF r.err = StErrReviewerNotAssigned
            THEN {Abort(l2, ErrReviewerNotAssigned)}
            ELSE {[l2 EXCEPT !.pc = "ReplaceReviewer.insert"]}
    [] l.pc = "ReplaceReviewer.insert" ->
         LET r == InsertReviewer(v, l.prID, l.replacement)
             l2 == [l EXCEPT !.w = @ \o r.w, !.locks = r.locks]
         IN IF r.err # NoErr THEN {Abort(l2, ErrInternal)}
            ELSE {Succeed([l2 EXCEPT !.pr = [@ EXCEPT !.Reviewers =
                             ReplaceInPlace(@, l.userID, l.replacement)]])}
    [] OTHER -> TxRunStep(l)

\* TeamService.GetTeamUsers: two queries, outside any transaction.
GetTeamUsersStep(v, l) ==
  CASE l.pc = "validate" ->
         LET name == TrimSpace(l.teamName)
         IN IF name = <<>> THEN {Fail(l, ErrValidation)}
            ELSE {[l EXCEPT !.teamName = name, !.pc = "ExistsTeam", !.locks = {}]}
    [] l.pc = "ExistsTeam" ->
         IF ~ExistsTeam(v, l.teamName)
         THEN {[Asked(l, "ExistsTeam") EXCEPT !.err = ErrTeamNotFound, !.pc = "done"]}
         ELSE {[Asked(l, "ExistsTeam") EXCEPT !.pc = "GetUsersByTeam"]}
    [] l.pc = "GetUsersByTeam" ->
         {[Asked(l, "GetUsersByTeam") EXCEPT
             !.teamUsers = GetUsersByTeam(v, l.teamName), !.pc = "done"]}

\* PRService.GetUserReviews: two queries, outside any transaction.
GetUserReviewsStep(v, l) ==
  CASE l.pc = "validate" ->
         LET id == TrimSpace(l.userID)
         IN IF id = <<>> THEN {Fail(l, ErrValidation)}
            ELSE {[l EXCEPT !.userID = id, !.pc = "GetUserWithTeam", !.locks = {}]}
    [] l.pc = "GetUserWithTeam" ->
         LET r == GetUserWithTeam(v, l.userID)
             l2 == Asked(l, "GetUserWithTeam")
         IN IF r.err = StErrUserNotFound
            THEN {[l2 EXCEPT !.err = ErrUserNotFound, !.pc = "done"]}
            ELSE {[l2 EXCEPT !.pc = "GetReviewerPRs"]}
    [] l.pc = "GetReviewerPRs" ->
         {[Asked(l, "GetReviewerPRs") EXCEPT
             !.reviews = GetReviewerPRs(v, l.userID), !.pc = "done"]}

\* PRService.GetAssignmentsStats: PRStorage.GetAssignmentsStats, two queries,
\* outside any transaction.
GetAssignmentsStatsStep(v, l) ==
  CASE l.pc = "validate" ->
         {[l EXCEPT !.pc = "GetAssignmentsStats", !.locks = {}]}
    [] l.pc = "GetAssignmentsStats" ->
         {[Asked(l, "GetAssignmentsStats") EXCEPT
             !.byUser = StatsByUser(v), !.pc = "GetAssignmentsStats.byPR"]}
    [] l.pc = "GetAssignmentsStats.byPR" ->
         {[l EXCEPT !.byPR = StatsByPR(v), !.locks = {}, !.pc = "done"]}

\* One step of the call l against the view v of the tables.
Step(v, l) ==
  CASE l.op = "CreateTeam" -> CreateTeamStep(v, l)
    [] l.op = "DeactivateTeamUsers" -> DeactivateTeamUsersStep(v, l)
    [] l.op = "SetUserActive" -> SetUserActiveStep(v, l)
    [] l.op = "CreatePR" -> CreatePRStep(v, l)
    [] l.op = "MergePR" -> MergePRStep(v, l)
    [] l.op = "ReassignReviewer" -> ReassignReviewerStep(v, l)
    [] l.op = "GetTeamUsers" -> GetTeamUsersStep(v, l)
    [] l.op = "GetUserReviews" -> GetUserReviewsStep(v, l)
    [] l.op = "GetAssignmentsStats" -> GetAssignmentsStatsStep(v, l)

\* --------------------------------------------------------------- requests
Active(id) == Member(id, TheUsername, TRUE)
Inactive(id) == Member(id, TheUsername, FALSE)

\* The member lists CreateTeam is called with.
MemberLists ==
  { << Active(<<"a">>), Active(<<"b">>), Active(<<"c">>), Active(<<"d">>) >>,
    << Active(<<"a">>), Active(<<"b">>), Active(<<"c">>) >>,
    << Active(<<"c">>), Inactive(<<"d">>) >>,
    << Member(Pad(<<"a">>), Pad(TheUsername), TRUE), Inactive(<<"a">>), NilMember,
       Active(<<"b">>) >>,
    << Active(<<"a">>), Member(<<"b">>, Blank, TRUE) >> }

CreateTeamReq(name, members) ==
  [NewCall("CreateTeam") EXCEPT !.teamName = name, !.members = members,
                               !.given = <<name, members>>]
DeactivateTeamUsersReq(name) ==
  [NewCall("DeactivateTeamUsers") EXCEPT !.teamName = name, !.given = <<name>>]
SetUserActiveReq(id, active) ==
  [NewCall("SetUserActive") EXCEPT !.userID = id, !.isActive = active,
                                  !.given = <<id>>]
CreatePRReq(id, title, author) ==
  [NewCall("CreatePR") EXCEPT !.prID = id, !.title = title, !.userID = author,
                             !.given = <<id, title, author>>]
MergePRReq(id) == [NewCall("MergePR") EXCEPT !.prID = id, !.given = <<id>>]
ReassignReviewerReq(id, old) ==
  [NewCall("ReassignReviewer") EXCEPT !.prID = id, !.userID = old,
                                     !.given = <<id, old>>]

GetTeamUsersReq(name) ==
  [NewCall("GetTeamUsers") EXCEPT !.teamName = name, !.given = <<name>>]
GetUserReviewsReq(id) ==
  [NewCall("GetUserReviews") EXCEPT !.userID = id, !.given = <<id>>]
GetAssignmentsStatsReq == NewCall("GetAssignmentsStats")

\* ------------------------------------------------- calls served one by one
\* The call l run to its return against the tables db: every way it can end.
RECURSIVE RunCall(_, _)
RunCall(db, l) ==
  IF l.pc = "done" THEN {l}
  ELSE UNION {RunCall(db, l2) : l2 \in Step(ApplyAll(db, l.w), l)}

\* What a returned call leaves to its caller: its (trimmed) arguments, the
\* repository methods it called and its error, and its results when the error
\* is nil (the services return a nil result with every error).
Returned(l) ==
  IF l.err = NoErr
  THEN [l EXCEPT !.w = <<>>, !.locks = {}, !.i = 1]
  ELSE [NewCall(l.op) EXCEPT !.pc = "done", !.err = l.err, !.intx = l.intx,
                             !.given = l.given,
                             !.prID = l.prID, !.userID = l.userID,
                             !.teamName = IF l.op \in {"CreateTeam", "DeactivateTeamUsers",
                                                      "GetTeamUsers"}
                                          THEN l.teamName ELSE <<>>,
                             !.isActive = l.isActive, !.repo = l.repo]

\* The call req is served from entry to return: its committed writes reach the
\* tables, its result is recorded.
Serve(req) ==
  /\ calls < MaxCalls
  /\ \E l \in RunCall(DB, req) :
       LET db == ApplyAll(DB, l.w)
       IN /\ teams' = db.teams
          /\ users' = db.users
          /\ pull_requests' = db.prs
          /\ pull_requests_reviewers' = db.revs
          /\ last' = Returned(l)
          /\ before' = DB
  /\ calls' = calls + 1
  /\ UNCHANGED loc

\* The requests made: the well-formed ones over the identifiers (team y is
\* only ever created with c and an inactive d; the second pull request q is
\* only ever created by a or c and reassigned from b or c), and a few whose
\* strings are padded or blank.
CreateTeamReqs ==
  {CreateTeamReq(<<"x">>, members) : members \in MemberLists}
  \cup {CreateTeamReq(<<"y">>, << Active(<<"c">>), Inactive(<<"d">>) >>),
        CreateTeamReq(Pad(<<"x">>), << Active(<<"a">>), Active(<<"b">>) >>),
        CreateTeamReq(Blank, << Active(<<"a">>) >>)}
DeactivateTeamUsersReqs ==
  {DeactivateTeamUsersReq(name) : name \in TeamNames \cup {Pad(<<"x">>), Blank}}
SetUserActiveReqs ==
  {SetUserActiveReq(id, active) : id \in UserIds, active \in BOOLEAN}
  \cup {SetUserActiveReq(Pad(<<"a">>), FALSE), SetUserActiveReq(Blank, TRUE)}
CreatePRReqs ==
  {CreatePRReq(<<"p">>, TheTitle, author) : author \in UserIds}
  \cup {CreatePRReq(<<"q">>, TheTitle, author) : author \in {<<"a">>, <<"c">>}}
  \cup {CreatePRReq(Pad(<<"p">>), Pad(TheTitle), Pad(<<"a">>)),
        CreatePRReq(Blank, TheTitle, <<"a">>),
        CreatePRReq(<<"p">>, Blank, <<"a">>),
        CreatePRReq(<<"p">>, TheTitle, Blank)}
MergePRReqs == {MergePRReq(id) : id \in PRIds \cup {Pad(<<"p">>), Blank}}
ReassignReviewerReqs ==
  {ReassignReviewerReq(<<"p">>, old) : old \in UserIds}
  \cup {ReassignReviewerReq(<<"q">>, old) : old \in {<<"b">>, <<"c">>}}
  \cup {ReassignReviewerReq(Pad(<<"p">>), Pad(<<"b">>)),
        ReassignReviewerReq(Blank, <<"b">>),
        ReassignReviewerReq(<<"p">>, Blank)}

GetTeamUsersReqs ==
  {GetTeamUsersReq(name) : name \in {<<"x">>, Pad(<<"y">>), Blank}}
GetUserReviewsReqs ==
  {GetUserReviewsReq(id) : id \in {<<"b">>, Pad(<<"c">>), Blank}}

CreateTeam == \E req \in CreateTeamReqs : Serve(req)

DeactivateTeamUsers == \E req \in DeactivateTeamUsersReqs : Serve(req)

SetUserActive == \E req \in SetUserActiveReqs : Serve(req)

CreatePR == \E req \in CreatePRReqs : Serve(req)

MergePR == \E req \in MergePRReqs : Serve(req)

ReassignReviewer == \E req \in ReassignReviewerReqs : Serve(req)

GetTeamUsers == \E req \in GetTeamUsersReqs : Serve(req)

GetUserReviews == \E req \in GetUserReviewsReqs : Serve(req)

GetAssignmentsStats == Serve(GetAssignmentsStatsReq)

Init ==
  /\ teams = {}
  /\ users = {}
  /\ pull_requests = {}
  /\ pull_requests_reviewers = EmptyBag
  /\ last = NewCall("none")
  /\ before = EmptyDB
  /\ calls = 0
  /\ loc = <<>>

Next ==
  \/ CreateTeam
  \/ DeactivateTeamUsers
  \/ SetUserActive
  \/ CreatePR
  \/ MergePR
  \/ ReassignReviewer
  \/ GetTeamUsers
  \/ GetUserReviews
  \/ GetAssignmentsStats

Spec == Init /\ [][Next]_vars

\* ------------------------------------------- team creation that can fail
\* The member upserts of a CreateTeam that the database may fail: the first,
\* the second or the third.
Faults == {1, 2, 3}

\* A CreateTeam one of whose member upserts returns an error.
CreateTeamFailing ==
  \E req \in CreateTeamReqs, k \in Faults : Serve([req EXCEPT !.fault = k])

NextFault ==
  \/ CreateTeam
  \/ CreateTeamFailing
  \/ SetUserActive

SpecFault == Init /\ [][NextFault]_vars

\* --------------------------------------------- calls served concurrently
\* Each process serves one call at a time, one statement per step. Every
\* statement reads the committed tables with the writes of its own
\* transaction applied (READ COMMITTED, the default BeginTx asks for), and a
\* statement that needs a row another open transaction has written waits for
\* that transaction to end.
Procs == {1, 2}

Idle == [NewCall("none") EXCEPT !.pc = "idle"]

\* The rows the open transaction of process p has written.
Held(p) == {<<loc[p].w[i].t>> \o loc[p].w[i].key : i \in 1..Len(loc[p].w)}

\* The tables as a statement of process p sees them.
View(p) == ApplyAll(DB, loc[p].w)

\* The ways the next step of process p can go without waiting.
Ready(p) ==
  {l2 \in Step(View(p), loc[p]) :
     \A o \in Procs \ {p} : l2.locks \cap Held(o) = {}}

\* The calls made concurrently: on the team and the pull request the
\* behaviour starts with.
ConcurrentReqs ==
  {CreatePRReq(<<"q">>, TheTitle, <<"a">>), CreatePRReq(<<"p">>, TheTitle, <<"b">>),
   MergePRReq(<<"p">>), SetUserActiveReq(<<"d">>, FALSE),
   DeactivateTeamUsersReq(<<"x">>),
   CreateTeamReq(<<"y">>, << Active(<<"c">>), Inactive(<<"d">>) >>)}
  \cup {ReassignReviewerReq(<<"p">>, old) : old \in UserIds}

\* A request reaches the service and process p starts serving it.
Begin(p) ==
  /\ loc[p].pc = "idle"
  /\ calls < MaxCalls
  /\ \E req \in ConcurrentReqs : loc' = [loc EXCEPT ![p] = req]
  /\ calls' = calls + 1
  /\ UNCHANGED <<teams, users, pull_requests, pull_requests_reviewers, last, before>>

\* An executor that never finds the transaction in the context.
getExecerWithoutTx(l) == "db"

\* getExecer / getQueryExecer: the transaction Run put in the context when
\* there is one, the connection pool otherwise.
getExecer(l) == IF l.intx THEN "tx" ELSE "db"

\* Process p runs the next statement of its call: inside its transaction what
\* it writes waits for the commit, on the connection pool it is committed
\* with the statement.
Statement(p) ==
  /\ loc[p].pc \notin {"idle", "done"}
  /\ \E l2 \in Ready(p) :
       /\ l2.pc # "done"
       /\ LET db == IF getExecer(l2) = "tx" THEN DB ELSE ApplyAll(DB, l2.w)
          IN /\ teams' = db.teams
             /\ users' = db.users
             /\ pull_requests' = db.prs
             /\ pull_requests_reviewers' = db.revs
       /\ loc' = [loc EXCEPT ![p] = IF getExecer(l2) = "tx" THEN l2
                                    ELSE [l2 EXCEPT !.w = <<>>]]
  /\ UNCHANGED <<last, before, calls>>

\* The call of process p returns: what it wrote and did not roll back reaches
\* the tables.
Return(p) ==
  /\ loc[p].pc \notin {"idle", "done"}
  /\ \E l2 \in Ready(p) :
       /\ l2.pc = "done"
       /\ LET db == ApplyAll(DB, l2.w)
          IN /\ teams' = db.teams
             /\ users' = db.users
             /\ pull_requests' = db.prs
             /\ pull_requests_reviewers' = db.revs
       /\ last' = Returned(l2)
       /\ before' = DB
       /\ loc' = [loc EXCEPT ![p] = Idle]
  /\ UNCHANGED calls

\* The behaviour starts after two calls: team x was created with four active
\* members, and a opened pull request p, which got b and c as reviewers.
InitConc ==
  LET made == CHOOSE l \in RunCall(EmptyDB, CreateTeamReq(<<"x">>,
                  << Active(<<"a">>), Active(<<"b">>), Active(<<"c">>),
                     Active(<<"d">>) >>)) : TRUE
      db1 == ApplyAll(EmptyDB, made.w)
      opened == CHOOSE l \in RunCall(db1, CreatePRReq(<<"p">>, TheTitle, <<"a">>)) :
                  l.reviewers = << <<"b">>, <<"c">> >>
      db2 == ApplyAll(db1, opened.w)
  IN /\ teams = db2.teams
     /\ users = db2.users
     /\ pull_requests = db2.prs
     /\ pull_requests_reviewers = db2.revs
     /\ last = Returned(opened)
     /\ before = db1
     /\ calls = 2
     /\ loc = [p \in Procs |-> Idle]

NextConc == \E p \in Procs : Begin(p) \/ Statement(p) \/ Return(p)

SpecConc == InitConc /\ [][NextConc]_vars

\* ------------------------------------------------------------- properties
Elems(s) == {s[i] : i \in 1..Len(s)}
Distinct(s) == \A i, j \in 1..Len(s) : i # j => s[i] # s[j]
RevRow(prID, userID) == [pull_request_id |-> prID, user_id |-> userID]

\* The last call returned without error.
Succeeded(op) == last.op = op /\ last.err = NoErr

\* C1: every successful CreatePR returns a reviewer list of at most 2
\* entries, none of them the author, no two of them equal.
C1_CreatePRReviewerList ==
  Succeeded("CreatePR") =>
    /\ Len(last.pr.Reviewers) <= 2
    /\ last.pr.AuthorID \notin Elems(last.pr.Reviewers)
    /\ Distinct(last.pr.Reviewers)

\* A CreatePR that returned two reviewers.
C1_Witness == Succeeded("CreatePR") /\ Len(last.pr.Reviewers) = 2

\* The users the tables db store as reviewers of the pull request prID.
StoredReviewersIn(db, prID) ==
  {r.user_id : r \in {x \in BagToSet(db.revs) : x.pull_request_id = prID}}
StoredReviewers(prID) == StoredReviewersIn(DB, prID)
ReviewedPRs == {r.pull_request_id : r \in BagToSet(pull_requests_reviewers)}

\* C2: in every reachable state, calls running concurrently included, the
\* stored reviewer set of each pull request has at most 2 members and holds
\* no user twice.
C2_StoredReviewersBounded ==
  /\ \A r \in BagToSet(pull_requests_reviewers) :
       CopiesIn(r, pull_requests_reviewers) = 1
  /\ \A prID \in ReviewedPRs : Cardinality(StoredReviewers(prID)) <= 2

\* Two concurrent ReassignReviewer calls chose the same replacement: the
\* second insert waited for the first to commit and was then refused.
C2_Witness ==
  /\ last.op = "ReassignReviewer"
  /\ last.err = ErrInternal
  /\ "ReplaceReviewer" \in Elems(last.repo)
  /\ Cardinality(StoredReviewers(last.prID)) = 2

\* C3: in every state reachable by CreateTeam, SetUserActive,
\* DeactivateTeamUsers, CreatePR, ReassignReviewer and MergePR calls, no pull
\* request's stored reviewer set contains its author, and a successful
\* ReassignReviewer never returns the author as the replacement.
C3_AuthorNeverReviewer ==
  /\ \A pr \in pull_requests : pr.author_id \notin StoredReviewers(pr.id)
  /\ Succeeded("ReassignReviewer") => last.replacement # last.pr.AuthorID

\* The status the tables db store for the pull request prID, "" when they
\* store none.
StatusIn(db, prID) ==
  IF \E p \in db.prs : p.id = prID
  THEN (CHOOSE p \in db.prs : p.id = prID).status
  ELSE ""

\* C4: the status of a pull request is monotonic: a call that creates it
\* leaves it OPEN, a call changes a status only from OPEN to MERGED, and a
\* MERGED pull request stays MERGED (and stored) whatever call is made.
C4_StatusMonotonic ==
  /\ \A pr \in pull_requests :
       CASE StatusIn(before, pr.id) = "" -> pr.status = "OPEN"
         [] StatusIn(before, pr.id) = "OPEN" -> pr.status \in {"OPEN", "MERGED"}
         [] StatusIn(before, pr.id) = "MERGED" -> pr.status = "MERGED"
         [] OTHER -> FALSE
  /\ \A old \in before.prs : StatusIn(DB, old.id) # ""

\* A MergePR took a pull request from OPEN to MERGED.
C4_Witness ==
  /\ Succeeded("MergePR")
  /\ StatusIn(before, last.prID) = "OPEN"
  /\ StatusIn(DB, last.prID) = "MERGED"

\* C5: MergePR is idempotent: on a pull request that is already MERGED it
\* returns that pull request with status MERGED and no error, without calling
\* UpdatePRStatus and without writing, so that a second MergePR leaves the
\* tables exactly as the first left them.
C5_MergeIdempotent ==
  (last.op = "MergePR" /\ StatusIn(before, last.prID) = "MERGED") =>
    /\ last.err = NoErr
    /\ last.pr.ID = last.prID
    /\ last.pr.Status = "MERGED"
    /\ Elems(last.pr.Reviewers) = StoredReviewers(last.prID)
    /\ "UpdatePRStatus" \notin Elems(last.repo)
    /\ DB = before

\* A MergePR was served on a pull request that was MERGED already.
C5_Witness ==
  /\ Succeeded("MergePR")
  /\ StatusIn(before, last.prID) = "MERGED"
  /\ last.repo = <<"GetPR">>

\* The repository methods that write.
MutatingRepo ==
  {"CreateTeam", "UpsertUser", "SetUserActive", "DeactivateTeamUsers",
   "CreatePR", "AddReviewers", "UpdatePRStatus", "ReplaceReviewer"}

\* The last call was a ReassignReviewer whose arguments passed validation,
\* on a pull request stored with the given status when it was made.
ReassignedOn(status) ==
  /\ last.op = "ReassignReviewer"
  /\ last.userID # <<>>
  /\ StatusIn(before, last.prID) = status

\* C6: a ReassignReviewer (with both arguments given) on a pull request
\* whose status is MERGED fails with PRMerged, calls no repository method
\* that writes, and leaves the reviewer set of the pull request, like every
\* table, unchanged.
C6_ReassignOnMergedRefused ==
  ReassignedOn("MERGED") =>
    /\ last.err = ErrPRMerged
    /\ Elems(last.repo) \cap MutatingRepo = {}
    /\ pull_requests_reviewers = before.revs
    /\ DB = before

\* A ReassignReviewer naming a current reviewer of a MERGED pull request.
C6_Witness ==
  /\ ReassignedOn("MERGED")
  /\ last.userID \in StoredReviewers(last.prID)

\* C7: the replacement a successful ReassignReviewer returns differs from
\* the old reviewer and from every reviewer the call read from the pull
\* request.
C7_ReplacementIsNew ==
  Succeeded("ReassignReviewer") =>
    /\ last.replacement # last.userID
    /\ last.replacement \notin Elems(last.read)

\* A ReassignReviewer succeeded on a pull request that had two reviewers.
C7_Witness ==
  /\ Succeeded("ReassignReviewer")
  /\ Len(last.read) = 2
  /\ last.replacement \in UserIds

\* C8: a ReassignReviewer (with both arguments given) on an OPEN pull
\* request fails with ReviewerNotAssigned when the old reviewer id is not in
\* the reviewer set of the pull request, and leaves that set, like every
\* table, unchanged.
C8_UnassignedOldReviewerRefused ==
  (ReassignedOn("OPEN") /\ last.userID \notin StoredReviewersIn(before, last.prID)) =>
    /\ last.err = ErrReviewerNotAssigned
    /\ StoredReviewers(last.prID) = StoredReviewersIn(before, last.prID)
    /\ DB = before

\* A ReassignReviewer named an active user who was no reviewer of the OPEN
\* pull request, which had reviewers.
C8_Witness ==
  /\ ReassignedOn("OPEN")
  /\ last.userID \notin StoredReviewersIn(before, last.prID)
  /\ StoredReviewersIn(before, last.prID) # {}
  /\ \E u \in before.users : u.id = last.userID /\ u.is_active

\* C9: a successful ReassignReviewer keeps the size of the reviewer set of
\* its pull request: the row of the old reviewer, which was stored, is
\* removed, the row of the replacement, which was not, is added once, and
\* every other reviewer row, of this and of every other pull request, is
\* stored as before.
C9_ReassignReplacesOne ==
  Succeeded("ReassignReviewer") =>
    LET old == RevRow(last.prID, last.userID)
        new == RevRow(last.prID, last.replacement)
    IN /\ BagIn(old, before.revs)
       /\ ~BagIn(new, before.revs)
       /\ \A r \in BagToSet(before.revs) \cup BagToSet(pull_requests_reviewers) :
            CopiesIn(r, pull_requests_reviewers) =
              IF r = old THEN 0
              ELSE IF r = new THEN 1
              ELSE CopiesIn(r, before.revs)
       /\ Cardinality(StoredReviewers(last.prID)) =
            Cardinality(StoredReviewersIn(before, last.prID))

\* A ReassignReviewer succeeded while another pull request had reviewers
\* too.
C9_Witness ==
  /\ Succeeded("ReassignReviewer")
  /\ \E prID \in ReviewedPRs \ {last.prID} : StoredReviewers(prID) # {}

\* The active members, other than the author, of the team the author of the
\* pull request just created was in when CreatePR was called.
EligibleReviewers ==
  {u.id : u \in {r \in before.users :
                   /\ r.is_active
                   /\ r.id # last.pr.AuthorID
                   /\ \E a \in before.users :
                        a.id = last.pr.AuthorID /\ a.team_name = r.team_name}}

\* C10: a successful CreatePR assigns exactly min(2, n) reviewers, n being
\* the number of active users of the author's team other than the author,
\* all drawn from them, returned and stored, and need_more_reviewers is true
\* exactly when fewer than 2 reviewers were assigned.
C10_CreatePRAssignsMin2 ==
  Succeeded("CreatePR") =>
    /\ Len(last.pr.Reviewers) = Min(2, Cardinality(EligibleReviewers))
    /\ Elems(last.pr.Reviewers) \subseteq EligibleReviewers
    /\ StoredReviewers(last.pr.ID) = Elems(last.pr.Reviewers)
    /\ Cardinality(StoredReviewers(last.pr.ID)) = Len(last.pr.Reviewers)
    /\ last.pr.NeedMoreReviewers <=> (Len(last.pr.Reviewers) < 2)

\* A CreatePR whose author had one active teammate: one reviewer, flag set.
C10_Witness ==
  /\ Succeeded("CreatePR")
  /\ Cardinality(EligibleReviewers) = 1
  /\ Len(last.pr.Reviewers) = 1
  /\ last.pr.NeedMoreReviewers

\* The row the tables db store for the user id (NoUser when none).
UserIn(db, id) ==
  IF \E u \in db.users : u.id = id THEN CHOOSE u \in db.users : u.id = id
  ELSE NoUser

\* When the call was made, the user id was active and in the team of ref.
ActiveTeammateOf(id, ref) ==
  /\ \E u \in before.users : u.id = id
  /\ UserIn(before, id).is_active
  /\ UserIn(before, id).team_name = UserIn(before, ref).team_name

\* C11: selection never picks an inactive user: every reviewer a successful
\* CreatePR stores was active and in the author's team when the call was
\* made, and the replacement a successful ReassignReviewer stores was active
\* and in the old reviewer's team.
C11_OnlyActiveTeammatesPicked ==
  /\ Succeeded("CreatePR") =>
       \A id \in StoredReviewers(last.pr.ID) : ActiveTeammateOf(id, last.pr.AuthorID)
  /\ Succeeded("ReassignReviewer") =>
       /\ last.replacement \in StoredReviewers(last.prID)
       /\ ActiveTeammateOf(last.replacement, last.userID)

\* A CreatePR stored a reviewer while the author's team had an inactive
\* member who was not chosen.
C11_Witness ==
  /\ Succeeded("CreatePR")
  /\ StoredReviewers(last.pr.ID) # {}
  /\ \E u \in before.users :
       /\ u.team_name = UserIn(before, last.pr.AuthorID).team_name
       /\ ~u.is_active
       /\ u.id # last.pr.AuthorID

\* The last call was a CreateTeam whose arguments passed validation.
CreateTeamRan == last.op = "CreateTeam" /\ last.intx

\* C12: at most one CreateTeam succeeds for a team name, whatever the
\* sequence or interleaving of calls: a CreateTeam (with valid arguments)
\* whose trimmed name is stored when it returns fails with TeamExists, and
\* one that succeeds found no team of that name and stored it.
C12_TeamCreatedOnce ==
  CreateTeamRan =>
    /\ last.teamName \in before.teams => last.err = ErrTeamExists
    /\ last.err = NoErr => (last.teamName \notin before.teams /\ last.teamName \in teams)
    /\ last.err = ErrTeamExists => (last.teamName \in before.teams /\ DB = before)

\* A CreateTeam failed with TeamExists.
C12_Witness ==
  /\ CreateTeamRan
  /\ last.err = ErrTeamExists
  /\ last.teamName \in teams

\* The entries of the member list ms that are not nil and whose trimmed id
\* no earlier non-nil entry has.
FirstOccurrences(ms) ==
  {i \in 1..Len(ms) :
     /\ ~ms[i].nil
     /\ \A j \in 1..(i - 1) :
          ms[j].nil \/ TrimSpace(ms[j].id) # TrimSpace(ms[i].id)}

\* Those entries, trimmed, in input order.
RECURSIVE ExpectedMembersFrom(_, _)
ExpectedMembersFrom(ms, i) ==
  IF i > Len(ms) THEN <<>>
  ELSE (IF i \in FirstOccurrences(ms)
        THEN <<Member(TrimSpace(ms[i].id), TrimSpace(ms[i].username),
                      ms[i].is_active)>>
        ELSE <<>>)
       \o ExpectedMembersFrom(ms, i + 1)

\* How often the call that returned last called the repository method name.
RepoCalls(name) == Cardinality({i \in 1..Len(last.repo) : last.repo[i] = name})

\* C13: a successful CreateTeam upserts exactly one user per distinct
\* trimmed member id of the non-nil entries, the first occurrence of each id
\* in input order, under the trimmed team name, and returns the trimmed name
\* with that deduplicated list; no other user row changes.
C13_CreateTeamDeduplicates ==
  Succeeded("CreateTeam") =>
    LET expected == ExpectedMembersFrom(last.given[2], 1)
    IN /\ last.teamName = TrimSpace(last.given[1])
       /\ last.members = expected
       /\ RepoCalls("UpsertUser") = Cardinality(FirstOccurrences(last.given[2]))
       /\ \A i \in 1..Len(expected) :
            /\ Cardinality({u \in users : u.id = expected[i].id}) = 1
            /\ UserIn(DB, expected[i].id) =
                 [id |-> expected[i].id, username |-> expected[i].username,
                  team_name |-> last.teamName, is_active |-> expected[i].is_active]
       /\ \A u \in before.users :
            u.id \notin {expected[i].id : i \in 1..Len(expected)} => u \in users
       /\ \A u \in users :
            u.id \notin {expected[i].id : i \in 1..Len(expected)} => u \in before.users

\* A CreateTeam succeeded on a list with a nil entry and a repeated id.
C13_Witness ==
  /\ Succeeded("CreateTeam")
  /\ \E i \in 1..Len(last.given[2]) : last.given[2][i].nil
  /\ Cardinality(FirstOccurrences(last.given[2])) < Len(last.given[2]) - 1
  /\ Len(last.members) = 2

\* The strings a call's caller must supply: every string argument of the
\* operation, and for CreateTeam the id and username of every member that is
\* not nil.
RequiredStrings(l) ==
  CASE l.op = "CreateTeam" ->
         {l.given[1]}
         \cup UNION {{l.given[2][i].id, l.given[2][i].username} :
                       i \in {j \in 1..Len(l.given[2]) : ~l.given[2][j].nil}}
    [] l.op \in {"none", "GetAssignmentsStats"} -> {}
    [] OTHER -> Elems(l.given)

\* A string of white space only: what is blank after trimming.
OnlySpaces(s) == \A i \in 1..Len(s) : s[i] = SP

\* C14: a call that was given a required string that is blank after trimming
\* (the team name of CreateTeam or the id or username of one of its members,
\* the argument of GetTeamUsers, DeactivateTeamUsers, SetUserActive,
\* GetUserReviews or MergePR, an argument of CreatePR or ReassignReviewer)
\* fails with the validation error, has opened no transaction and called no
\* repository method, and leaves the tables as it found them.
C14_BlankInputRejectedFirst ==
  (\E s \in RequiredStrings(last) : OnlySpaces(s))
    => /\ last.err = ErrValidation
       /\ ~last.intx
       /\ last.repo = <<>>
       /\ DB = before

\* CreateTeam was given a member with a blank username after a valid name,
\* over tables that already hold a team.
C14_Witness ==
  /\ last.op = "CreateTeam"
  /\ ~OnlySpaces(last.given[1])
  /\ \E s \in RequiredStrings(last) : OnlySpaces(s)
  /\ last.err = ErrValidation
  /\ teams # {}

\* C15: a CreatePR whose arguments pass validation and whose author is not a
\* stored user fails with the author-not-found error and leaves the tables as
\* it found them (no pull request row, no reviewer row); and the author of
\* every stored pull request is a stored user.
C15_AuthorMustExist ==
  /\ (/\ last.op = "CreatePR"
      /\ \A s \in Elems(last.given) : ~OnlySpaces(s)
      /\ UserIn(before, TrimSpace(last.given[3])) = NoUser)
       => /\ last.err = ErrPRAuthorNotFound
          /\ DB = before
  /\ \A p \in pull_requests : UserIn(DB, p.author_id) # NoUser

\* CreatePR was refused for an unknown author while users and a pull request
\* of another author are stored.
C15_Witness ==
  /\ last.op = "CreatePR"
  /\ last.err = ErrPRAuthorNotFound
  /\ UserIn(before, last.userID) = NoUser
  /\ users # {}
  /\ pull_requests # {}

\* The stored pull requests that have the user among their reviewers, as the
\* short records the service returns.
ReviewedBy(db, userID) ==
  {[ID |-> p.id, Title |-> p.title, AuthorID |-> p.author_id, Status |-> p.status] :
     p \in {r \in db.prs : userID \in StoredReviewersIn(db, r.id)}}

\* C16: a GetUserReviews whose argument passes validation, for a stored user,
\* returns the trimmed id and exactly the stored pull requests whose reviewer
\* set contains the user, each once (none of them: the empty list); for a
\* user that is not stored it fails with the user-not-found error. It changes
\* no table.
C16_ReviewsAreCurrentAssignments ==
  (last.op = "GetUserReviews" /\ ~OnlySpaces(last.given[1]))
    => LET u == TrimSpace(last.given[1])
       IN /\ DB = before
          /\ IF UserIn(DB, u) = NoUser
             THEN last.err = ErrUserNotFound
             ELSE /\ last.err = NoErr
                  /\ last.userID = u
                  /\ Elems(last.reviews) = ReviewedBy(DB, u)
                  /\ Len(last.reviews) = Cardinality(ReviewedBy(DB, u))

\* GetUserReviews returned a pull request for a user who reviews it while
\* another stored pull request is not returned.
C16_Witness ==
  /\ Succeeded("GetUserReviews")
  /\ Len(last.reviews) = 1
  /\ Cardinality(pull_requests) = 2

\* GetUserReviews returned the empty list for a stored user while a pull
\* request is stored.
C16_WitnessEmpty ==
  /\ Succeeded("GetUserReviews")
  /\ last.reviews = <<>>
  /\ pull_requests # {}

\* C17: a SetUserActive whose id passes validation, for a stored user, returns
\* that user's row with the flag set and changes nothing else: the user's
\* username and team, every other user row, the teams, the pull requests and
\* the reviewer rows are as the call found them; for a user that is not
\* stored it fails with the user-not-found error and changes nothing.
C17_SetUserActiveFrame ==
  (last.op = "SetUserActive" /\ ~OnlySpaces(last.given[1]))
    => LET old == UserIn(before, TrimSpace(last.given[1]))
       IN IF old = NoUser
          THEN last.err = ErrUserNotFound /\ DB = before
          ELSE LET new == [old EXCEPT !.is_active = last.isActive]
               IN /\ last.err = NoErr
                  /\ last.user = new
                  /\ users = (before.users \ {old}) \cup {new}
                  /\ teams = before.teams
                  /\ pull_requests = before.prs
                  /\ pull_requests_reviewers = before.revs

\* SetUserActive deactivated an active user who is a reviewer of a stored
\* pull request, in a team of several users.
C17_Witness ==
  /\ Succeeded("SetUserActive")
  /\ ~last.isActive
  /\ UserIn(before, last.userID).is_active
  /\ \E p \in pull_requests : last.userID \in StoredReviewers(p.id)
  /\ Cardinality(users) > 1

\* C18: a DeactivateTeamUsers whose name passes validation, for a stored
\* team, leaves every user of the team inactive, returns the trimmed name and
\* the number of the team's users that were active when it was called, and
\* changes no user of another team and no other table; for a team that is not
\* stored it fails with the team-not-found error and changes nothing.
C18_DeactivateTeamUsersEffect ==
  (last.op = "DeactivateTeamUsers" /\ ~OnlySpaces(last.given[1]))
    => LET name == TrimSpace(last.given[1])
       IN IF name \notin before.teams
          THEN last.err = ErrTeamNotFound /\ DB = before
          ELSE /\ last.err = NoErr
               /\ last.teamName = name
               /\ last.count =
                    Cardinality({u \in before.users : u.team_name = name /\ u.is_active})
               /\ \A u \in users : u.team_name = name => ~u.is_active
               /\ users = {IF u.team_name = name THEN [u EXCEPT !.is_active = FALSE]
                                                 ELSE u : u \in before.users}
               /\ teams = before.teams
               /\ pull_requests = before.prs
               /\ pull_requests_reviewers = before.revs

\* DeactivateTeamUsers deactivated some users of a team that also had an
\* inactive one, while another team keeps an active user.
C18_Witness ==
  /\ Succeeded("DeactivateTeamUsers")
  /\ last.count > 0
  /\ \E u \in before.users : u.team_name = last.teamName /\ ~u.is_active
  /\ \E u \in users : u.team_name # last.teamName /\ u.is_active

\* The total of the field f over the records of the sequence s.
RECURSIVE Total(_, _)
Total(s, f) == IF s = <<>> THEN 0 ELSE Head(s)[f] + Total(Tail(s), f)

\* The users that review some stored pull request.
Reviewers == {r.user_id : r \in BagToSet(pull_requests_reviewers)}

\* C19: GetAssignmentsStats returns, once each, every pull request that has a
\* reviewer with the size of its stored reviewer set, and every user that has
\* an assignment with the number of pull requests whose reviewer set contains
\* the user; the two totals are equal. It changes no table.
C19_StatsMatchAssignments ==
  last.op = "GetAssignmentsStats"
    => /\ last.err = NoErr
       /\ DB = before
       /\ Elems(last.byPR) =
            {[PullRequestID |-> id, Reviewers |-> Cardinality(StoredReviewers(id))] :
               id \in ReviewedPRs}
       /\ Len(last.byPR) = Cardinality(ReviewedPRs)
       /\ Elems(last.byUser) =
            {[UserID |-> u,
              Assignments |-> Cardinality({id \in ReviewedPRs : u \in StoredReviewers(id)})] :
               u \in Reviewers}
       /\ Len(last.byUser) = Cardinality(Reviewers)
       /\ Total(last.byUser, "Assignments") = Total(last.byPR, "Reviewers")

\* GetAssignmentsStats reported two pull requests and a user who reviews both.
C19_Witness ==
  /\ Succeeded("GetAssignmentsStats")
  /\ Len(last.byPR) = 2
  /\ \E i \in 1..Len(last.byUser) : last.byUser[i].Assignments = 2

\* ------------------------------------------ the transaction coordinator
\* TxManagerSQL.Run on its own: a few units of work run side by side, each
\* with its own context and transaction; the work function is any function,
\* known by how it ends. loc[i] holds the locals of the i-th Run.
MaxUnits == 2
Units == 1..MaxUnits

\* How the work function can end: it returns nil, returns an error, panics.
FnOutcomes == {"nil", "error", "panic"}

\* Run is called: nothing begun, the caller's context live.
NewUnit ==
  [pc |-> "BeginTx", ctx |-> "live", tx |-> "none", fn |-> "", err |-> "",
   commits |-> 0, rollbacks |-> 0]

\* A rollback that does nothing.
rollbackNothing(u) == u

\* TxManagerSQL.rollback: tx.Rollback(); on a transaction that is already
\* finished it returns sql.ErrTxDone, which is ignored.
rollback(u) ==
  IF u.tx = "open" THEN [u EXCEPT !.tx = "rolledback", !.rollbacks = @ + 1]
  ELSE u

\* One step of TxManagerSQL.Run.
RunStep(u) ==
  CASE u.pc = "BeginTx" ->
         \* BeginTx fails on a cancelled context, and can fail on a live one
         {[u EXCEPT !.err = "begin tx", !.pc = "returned"]}
         \cup (IF u.ctx = "cancelled" THEN {}
               ELSE {[u EXCEPT !.tx = "open", !.pc = "fn"]})
    [] u.pc = "fn" ->
         {[u EXCEPT !.fn = o,
                    !.pc = CASE o = "nil" -> "Commit"
                             [] o = "error" -> "rollback"
                             [] o = "panic" -> "recover"] : o \in FnOutcomes}
    [] u.pc = "rollback" ->
         {[rollback(u) EXCEPT !.err = "run in transaction", !.pc = "returned"]}
    [] u.pc = "recover" ->
         \* the deferred function: rollback, then panic(p)
         {[rollback(u) EXCEPT !.pc = "panicked"]}
    [] u.pc = "Commit" ->
         IF u.tx # "open" \/ u.ctx = "cancelled"
         THEN \* sql.ErrTxDone or the context's error: nothing is committed
              {[u EXCEPT !.err = "commit", !.pc = "returned"]}
         ELSE {[u EXCEPT !.tx = "committed", !.commits = @ + 1, !.pc = "returned"],
               \* the commit fails: the database has aborted the transaction
               [u EXCEPT !.tx = "rolledback", !.rollbacks = @ + 1,
                         !.err = "commit", !.pc = "returned"]}
    [] OTHER -> {}

Ended(u) == u.pc \in {"returned", "panicked"}

\* The i-th Run takes a step.
Run(i) ==
  /\ \E u \in RunStep(loc[i]) : loc' = [loc EXCEPT ![i] = u]
  /\ UNCHANGED <<teams, users, pull_requests, pull_requests_reviewers, last, before,
                 calls>>

\* The caller's context is cancelled or its deadline passes while Run runs.
Cancel(i) ==
  /\ ~Ended(loc[i])
  /\ loc[i].ctx = "live"
  /\ loc' = [loc EXCEPT ![i].ctx = "cancelled"]
  /\ UNCHANGED <<teams, users, pull_requests, pull_requests_reviewers, last, before,
                 calls>>

\* database/sql rolls back a transaction begun with BeginTx(ctx, ...) when
\* ctx is cancelled.
AwaitDone(i) ==
  /\ loc[i].ctx = "cancelled"
  /\ loc[i].tx = "open"
  /\ loc' = [loc EXCEPT ![i].tx = "rolledback", ![i].rollbacks = @ + 1]
  /\ UNCHANGED <<teams, users, pull_requests, pull_requests_reviewers, last, before,
                 calls>>

InitTx ==
  /\ teams = {}
  /\ users = {}
  /\ pull_requests = {}
  /\ pull_requests_reviewers = EmptyBag
  /\ last = NewCall("none")
  /\ before = EmptyDB
  /\ calls = 0
  /\ loc = [i \in Units |-> NewUnit]

NextTx == \E i \in Units : Run(i) \/ Cancel(i) \/ AwaitDone(i)

\* Every Run goes on to its end (the work function ends), and the rollback on
\* cancellation is not put off for ever.
SpecTx ==
  /\ InitTx
  /\ [][NextTx]_vars
  /\ \A i \in Units : WF_vars(Run(i)) /\ WF_vars(AwaitDone(i))

\* What holds of a unit of work at every moment.
UnitSafe(u) ==
  /\ u.commits + u.rollbacks <= 1
  /\ u.commits = (IF u.tx = "committed" THEN 1 ELSE 0)
  /\ u.rollbacks = (IF u.tx = "rolledback" THEN 1 ELSE 0)
  /\ u.tx = "committed" => u.fn = "nil" /\ u.err = ""
  /\ (Ended(u) /\ u.fn = "error") => u.tx = "rolledback" /\ u.err = "run in transaction"
  /\ u.pc = "panicked" <=> (Ended(u) /\ u.fn = "panic")
  /\ u.pc = "panicked" => u.tx = "rolledback"
  /\ u.ctx = "cancelled" => u.tx # "committed"
  /\ (Ended(u) /\ u.tx = "open") => u.ctx = "cancelled" /\ u.fn = "nil"
  /\ (u.pc = "returned" /\ u.err = "") => u.tx = "committed"

\* C20: every unit of work ends with exactly one of commit and rollback: it
\* never has more than one of them, it is committed only when the work
\* function returned nil (and Run then returns nil), it is rolled back when
\* the function returned an error or panicked (Run then ends by the panic)
\* and is never committed once its context is cancelled; and a transaction
\* that was begun is in the end committed or rolled back.
C20_UnitOfWorkEndsOnce ==
  /\ [](\A i \in Units : UnitSafe(loc[i]))
  /\ \A i \in Units :
       (loc[i].tx = "open") ~> (loc[i].tx \in {"committed", "rolledback"})

\* One Run has ended by a panic with its transaction rolled back, the other
\* was cancelled after its function returned nil and was rolled back instead
\* of committed.
C20_Witness ==
  \E i, j \in Units :
    /\ loc[i].pc = "panicked" /\ loc[i].tx = "rolledback"
    /\ loc[j].ctx = "cancelled" /\ loc[j].fn = "nil" /\ loc[j].tx = "rolledback"
    /\ Ended(loc[j])

\* C21: what another call observes is all or nothing of a multi-step write.
\* While a CreatePR that has inserted its pull request row is still adding
\* reviewers or waiting to commit, no other call sees that row; while a
\* CreateTeam that has inserted its team row is still upserting members, no
\* other call sees the team; while a ReassignReviewer has deleted the old
\* reviewer's row and not yet committed, every other call still sees the old
\* reviewer, and does not see a replacement that was inserted.
C21_WritesAtomicToObservers ==
  \A p \in Procs : \A o \in Procs \ {p} :
    LET l == loc[p]
        v == View(o)
    IN /\ (l.op = "CreatePR" /\ l.pc \in {"AddReviewers", "commit"})
            => \A r \in v.prs : r.id # l.prID
       /\ (l.op = "CreateTeam" /\ l.pc \in {"UpsertUser", "commit"})
            => l.teamName \notin v.teams
       /\ (l.op = "ReassignReviewer" /\ l.pc \in {"ReplaceReviewer.insert", "commit"})
            => l.userID \in StoredReviewersIn(v, l.prID)
       /\ (l.op = "ReassignReviewer" /\ l.pc = "commit")
            => l.replacement \notin StoredReviewersIn(v, l.prID)

\* A CreatePR has inserted its row and the first of two reviewers while the
\* other process is in the middle of reading the tables for its own call.
C21_Witness ==
  \E p \in Procs : \E o \in Procs \ {p} :
    /\ loc[p].op = "CreatePR" /\ loc[p].pc = "AddReviewers" /\ loc[p].i = 2
    /\ loc[o].pc \notin {"idle", "done", "validate"}

\* ------------------------------------------------------ the transport layer
\* The handlers on their own: each decodes its request, calls its service
\* method and answers; the service is any implementation of the interface the
\* handler holds, known by the error it returns. `last` holds the exchange.
ErrCodeBadRequest == "BAD_REQUEST"
ErrCodeInternal == "INTERNAL"
ErrCodeValidation == "VALIDATION"
ErrCodeNotFound == "NOT_FOUND"
ErrCodePRExists == "PR_EXISTS"
ErrCodePRMerged == "PR_MERGED"
ErrCodeNotAssigned == "NOT_ASSIGNED"
ErrCodeNoCandidate == "NO_CANDIDATE"
ErrCodeTeamExists == "TEAM_EXISTS"

\* An error as handleError receives it: an error of the service (possibly
\* wrapped: errors.Is sees through the wrapping), or a ResponseError.
ServiceError(e) == [response |-> FALSE, is |-> e, code |-> ""]
newResponseError(code) == [response |-> TRUE, is |-> "", code |-> code]

\* The errors a service method can return.
ServiceErrors ==
  {ErrValidation, ErrTeamExists, ErrTeamNotFound, ErrUserNotFound,
   ErrPRAuthorNotFound, ErrPRTeamNotFound, ErrPRAlreadyExists, ErrPRNotFound,
   ErrPRMerged, ErrReviewerNotAssigned, ErrNoReplacement, ErrInternal}

\* router.mapError: the code of the response for an error.
mapError(err) ==
  IF err.response THEN err.code
  ELSE CASE err.is = ErrValidation -> ErrCodeValidation
         [] err.is = ErrTeamExists -> ErrCodeTeamExists
         [] err.is \in {ErrTeamNotFound, ErrPRTeamNotFound, ErrPRAuthorNotFound,
                        ErrPRNotFound, ErrUserNotFound} -> ErrCodeNotFound
         [] err.is = ErrPRAlreadyExists -> ErrCodePRExists
         [] err.is = ErrPRMerged -> ErrCodePRMerged
         [] err.is = ErrReviewerNotAssigned -> ErrCodeNotAssigned
         [] err.is = ErrNoReplacement -> ErrCodeNoCandidate
         [] OTHER -> ErrCodeInternal

\* A status table that puts TEAM_EXISTS with the conflicts.
statusForCodeTeamExistsConflict(code) ==
  CASE code \in {ErrCodeBadRequest, ErrCodeValidation} -> 400
    [] code = ErrCodeNotFound -> 404
    [] code \in {ErrCodePRExists, ErrCodePRMerged, ErrCodeNotAssigned,
                 ErrCodeNoCandidate, ErrCodeTeamExists} -> 409
    [] OTHER -> 500

\* statusForCode: the HTTP status of a code.
statusForCode(code) ==
  CASE code \in {ErrCodeBadRequest, ErrCodeValidation, ErrCodeTeamExists} -> 400
    [] code = ErrCodeNotFound -> 404
    [] code \in {ErrCodePRExists, ErrCodePRMerged, ErrCodeNotAssigned,
                 ErrCodeNoCandidate} -> 409
    [] OTHER -> 500

\* router.handleError: the response written for an error.
handleError(x, err) ==
  [x EXCEPT !.code = mapError(err), !.status = statusForCode(mapError(err))]

\* No exchange yet.
NoExchange ==
  [route |-> "none", body |-> "", called |-> FALSE, err |-> NoErr, code |-> "",
   status |-> 0]

\* A handler that decodes a JSON body: a body that does not decode is
\* answered with BAD_REQUEST and the service is not called; otherwise the
\* service is called and its error, if any, is handed to handleError.
DecodeAndCall(route, body, result, success) ==
  LET x == [NoExchange EXCEPT !.route = route, !.body = body]
  IN IF body = "malformed"
     THEN handleError(x, newResponseError(ErrCodeBadRequest))
     ELSE IF result # NoErr
          THEN handleError([x EXCEPT !.called = TRUE, !.err = result],
                           ServiceError(result))
     ELSE [x EXCEPT !.called = TRUE, !.status = success]

\* A handler that takes its argument from the query string.
QueryAndCall(route, result) == DecodeAndCall(route, "", result, 200)

\* The exchange x is answered.
Respond(x) ==
  /\ last' = x
  /\ UNCHANGED <<teams, users, pull_requests, pull_requests_reviewers, before, calls,
                 loc>>

Bodies == {"json", "malformed"}
Results == ServiceErrors \cup {NoErr}

createTeam ==
  \E body \in Bodies, result \in Results :
    Respond(DecodeAndCall("createTeam", body, result, 201))

getTeam == \E result \in Results : Respond(QueryAndCall("getTeam", result))

deactivateTeamUsers ==
  \E body \in Bodies, result \in Results :
    Respond(DecodeAndCall("deactivateTeamUsers", body, result, 200))

setUserActive ==
  \E body \in Bodies, result \in Results :
    Respond(DecodeAndCall("setUserActive", body, result, 200))

createPR ==
  \E body \in Bodies, result \in Results :
    Respond(DecodeAndCall("createPR", body, result, 201))

getUserReviews ==
  \E result \in Results : Respond(QueryAndCall("getUserReviews", result))

mergePR ==
  \E body \in Bodies, result \in Results :
    Respond(DecodeAndCall("mergePR", body, result, 200))

reassignPR ==
  \E body \in Bodies, result \in Results :
    Respond(DecodeAndCall("reassignPR", body, result, 200))

getAssignmentsStats ==
  \E result \in Results : Respond(QueryAndCall("getAssignmentsStats", result))

InitHTTP ==
  /\ teams = {}
  /\ users = {}
  /\ pull_requests = {}
  /\ pull_requests_reviewers = EmptyBag
  /\ last = NoExchange
  /\ before = EmptyDB
  /\ calls = 0
  /\ loc = <<>>

NextHTTP ==
  \/ createTeam
  \/ getTeam
  \/ deactivateTeamUsers
  \/ setUserActive
  \/ createPR
  \/ getUserReviews
  \/ mergePR
  \/ reassignPR
  \/ getAssignmentsStats

SpecHTTP == InitHTTP /\ [][NextHTTP]_vars

\* C22: the status of an answer is fixed by the kind of the error: a body
\* that does not decode is answered 400 without the service being called; a
\* validation error and TeamExists 400; TeamNotFound (of either service),
\* AuthorNotFound, PRNotFound and UserNotFound 404; PRAlreadyExists,
\* PRMerged, ReviewerNotAssigned and NoReplacementCandidate 409; any other
\* error 500.
C22_StatusByErrorKind ==
  /\ last.body = "malformed" => last.status = 400 /\ ~last.called
  /\ (last.called /\ last.err # NoErr) =>
       last.status =
         CASE last.err \in {ErrValidation, ErrTeamExists} -> 400
           [] last.err \in {ErrTeamNotFound, ErrPRTeamNotFound, ErrPRAuthorNotFound,
                            ErrPRNotFound, ErrUserNotFound} -> 404
           [] last.err \in {ErrPRAlreadyExists, ErrPRMerged, ErrReviewerNotAssigned,
                            ErrNoReplacement} -> 409
           [] OTHER -> 500

\* createTeam answered 400 to a service that returned TeamExists.
C22_Witness ==
  /\ last.route = "createTeam"
  /\ last.called
  /\ last.err = ErrTeamExists
  /\ last.status = 400

\* reassignPR answered 400 to a body that does not decode, without calling
\* the service.
C22_WitnessMalformed ==
  /\ last.route = "reassignPR"
  /\ last.body = "malformed"
  /\ ~last.called
  /\ last.status = 400

\* C23: the reviewer set of a pull request does not change once its status
\* is MERGED: whenever a call returns, every pull request that was MERGED in
\* the tables the return found has the reviewer set it had there.
C23_MergedReviewersFrozen ==
  \A pr \in before.prs :
    pr.status = StatusMerged
      => StoredReviewersIn(DB, pr.id) = StoredReviewersIn(before, pr.id)

\* C24: of the ReassignReviewer calls that run concurrently for one pull
\* request and one old reviewer, the one that commits finds the old
\* reviewer's row still stored and replaces exactly that row, so the next one
\* cannot commit too: a call that reaches the delete step when the row is
\* gone fails with ReviewerNotAssigned and changes no table.
C24_OneReassignmentWins ==
  last.op = "ReassignReviewer" =>
    /\ last.err = NoErr =>
         /\ last.userID \in StoredReviewersIn(before, last.prID)
         /\ pull_requests_reviewers =
              (before.revs (-) SetToBag({RevRow(last.prID, last.userID)}))
                (+) SetToBag({RevRow(last.prID, last.replacement)})
    /\ (/\ last.err # NoErr
        /\ \E i \in 1..Len(last.repo) : last.repo[i] = "ReplaceReviewer"
        /\ last.userID \notin StoredReviewersIn(before, last.prID))
         => last.err = ErrReviewerNotAssigned /\ DB = before

\* A ReassignReviewer passed the service's check, reached the delete step
\* after a concurrent one had committed its replacement, and was refused.
C24_Witness ==
  /\ last.op = "ReassignReviewer"
  /\ last.err = ErrReviewerNotAssigned
  /\ \E i \in 1..Len(last.repo) : last.repo[i] = "ReplaceReviewer"
  /\ last.userID \notin StoredReviewers(last.prID)
  /\ Cardinality(StoredReviewers(last.prID)) = reviewersPerPR

\* The error the claim's order of checks gives a ReassignReviewer of the old
\* reviewer on the pull request over the tables db.
ExpectedReassignError(db, prID, old) ==
  LET reviewers == StoredReviewersIn(db, prID)
      u == UserIn(db, old)
      candidates == {c \in db.users : /\ c.team_name = u.team_name
                                      /\ c.is_active
                                      /\ c.id \notin reviewers \cup {old}}
  IN IF StatusIn(db, prID) = "" THEN ErrPRNotFound
     ELSE IF StatusIn(db, prID) = StatusMerged THEN ErrPRMerged
     ELSE IF old \notin reviewers THEN ErrReviewerNotAssigned
     ELSE IF u = NoUser THEN ErrUserNotFound
     ELSE IF OnlySpaces(u.team_name) THEN ErrPRTeamNotFound
     ELSE IF candidates = {} THEN ErrNoReplacement
     ELSE NoErr

\* C25: a ReassignReviewer whose arguments pass validation reports the first
\* precondition that fails, in the order PRNotFound, PRMerged,
\* ReviewerNotAssigned, UserNotFound or TeamNotFound for the old reviewer,
\* NoReplacementCandidate, and succeeds when none fails.
C25_ReassignCheckOrder ==
  (last.op = "ReassignReviewer" /\ \A s \in Elems(last.given) : ~OnlySpaces(s))
    => last.err = ExpectedReassignError(before, TrimSpace(last.given[1]),
                                        TrimSpace(last.given[2]))

\* A ReassignReviewer on a MERGED pull request named a user who is not one
\* of its reviewers and was refused with PRMerged.
C25_Witness ==
  /\ last.op = "ReassignReviewer"
  /\ last.err = ErrPRMerged
  /\ last.userID \notin StoredReviewers(last.prID)
  /\ StoredReviewers(last.prID) # {}

\* ------------------------------------------------------ re-creation
\* The ids of the users stored in db under the team name.
MemberIdsIn(db, name) == {u.id : u \in {w \in db.users : w.team_name = name}}

\* The trimmed ids of the non-nil entries of the member list ms.
GivenIds(ms) == {TrimSpace(ms[i].id) : i \in FirstOccurrences(ms)}

\* A CreateTeam on the name of a stored team upserts its members into that
\* team, the team row staying single: every id it was given is a member of
\* the team when it returns.
C26_RecreationUpsertsMembers ==
  (CreateTeamRan /\ last.teamName \in before.teams) =>
    /\ teams = before.teams
    /\ GivenIds(last.given[2]) \subseteq MemberIdsIn(DB, last.teamName)

\* C26: the membership of a stored team does not grow. A CreateTeam on the
\* name of a stored team fails with TeamExists before any member is
\* upserted and leaves teams and users as they were, and no call at all adds
\* a member to a team that was stored when the call began.
C26_ExistingTeamDoesNotGrow ==
  /\ (CreateTeamRan /\ last.teamName \in before.teams) =>
       /\ last.err = ErrTeamExists
       /\ RepoCalls("UpsertUser") = 0
       /\ teams = before.teams
       /\ users = before.users
  /\ \A name \in before.teams :
       MemberIdsIn(DB, name) \subseteq MemberIdsIn(before, name)

\* A CreateTeam on a stored team, given an id that is not a member of it,
\* was refused.
C26_Witness ==
  /\ CreateTeamRan
  /\ last.teamName \in before.teams
  /\ last.err = ErrTeamExists
  /\ ~(GivenIds(last.given[2]) \subseteq MemberIdsIn(before, last.teamName))

\* --------------------------------------------- failed team creation
\* C27: a CreateTeam that fails inside its unit of work, with TeamExists or
\* because a member upsert failed after the team row was inserted, leaves
\* the stored teams and users exactly as the call found them.
C27_FailedCreateTeamPersistsNothing ==
  (CreateTeamRan /\ last.err # NoErr) =>
    /\ last.err \in {ErrTeamExists, ErrInternal}
    /\ teams = before.teams
    /\ users = before.users
    /\ last.err = ErrInternal => last.teamName \notin teams

\* A CreateTeam inserted the team row, upserted a member, and failed on the
\* next member upsert.
C27_Witness ==
  /\ CreateTeamRan
  /\ last.err = ErrInternal
  /\ RepoCalls("CreateTeam") = 1
  /\ RepoCalls("UpsertUser") = 2

\* --------------------------------------------- one creation per id
\* The rows of pull_requests in db that have the id.
PRRowsIn(db, prID) == {pr \in db.prs : pr.id = prID}

\* C28: for each pull request id at most one CreatePR succeeds, in every
\* interleaving: a CreatePR that succeeds found no row of that id and leaves
\* exactly one, a CreatePR that reaches the insert when a row of that id is
\* stored fails with PRAlreadyExists, a CreatePR that fails with
\* PRAlreadyExists changes no table, and no call ever removes a row or
\* changes its title or author.
C28_OneCreationPerId ==
  /\ \A pr \in pull_requests : Cardinality(PRRowsIn(DB, pr.id)) = 1
  /\ \A old \in before.prs :
       \E pr \in pull_requests :
         pr.id = old.id /\ pr.title = old.title /\ pr.author_id = old.author_id
  /\ last.op = "CreatePR" =>
       /\ last.err = NoErr =>
            /\ PRRowsIn(before, last.prID) = {}
            /\ PRRowsIn(DB, last.prID) =
                 {[id |-> last.prID, title |-> last.title,
                   author_id |-> last.userID, status |-> StatusOpen]}
       /\ (RepoCalls("CreatePR") = 1 /\ PRRowsIn(before, last.prID) # {})
            => last.err = ErrPRAlreadyExists
       /\ last.err = ErrPRAlreadyExists =>
            /\ PRRowsIn(before, last.prID) # {}
            /\ DB = before

\* A CreatePR was refused with PRAlreadyExists for a pull request that has
\* reviewers.
C28_Witness ==
  /\ last.op = "CreatePR"
  /\ last.err = ErrPRAlreadyExists
  /\ PRRowsIn(DB, last.prID) # {}
  /\ StoredReviewers(last.prID) # {}

\* --------------------------------------------- the flag of a pull request
\* The call that returns in this step is a successful MergePR or
\* ReassignReviewer of the pull request that the call before it returned.
LaterResultOfSamePR ==
  /\ last'.op \in {"MergePR", "ReassignReviewer"}
  /\ last'.err = NoErr
  /\ last'.prID = last.prID

\* C29: need_more_reviewers is recorded when the pull request is created and
\* reported unchanged afterwards: when a CreatePR has returned a pull request
\* and the next call is a successful MergePR or ReassignReviewer of that
\* pull request, its result carries the flag the CreatePR result carried.
C29_NeedMoreRecordedAtCreation ==
  [][(Succeeded("CreatePR") /\ LaterResultOfSamePR)
       => last'.pr.NeedMoreReviewers = last.pr.NeedMoreReviewers]_vars

\* --------------------------------------------- returned and stored reviewers
\* C30: the reviewer list of the pull request that a successful CreatePR or
\* ReassignReviewer returns is, as a set, the reviewer set stored for that
\* pull request when the call has committed; the list a ReassignReviewer
\* returns is the list it read with the first occurrence of the old id
\* overwritten by the replacement it returns.
C30_ReturnedReviewersAreStored ==
  (Succeeded("CreatePR") \/ Succeeded("ReassignReviewer")) =>
    /\ Elems(last.pr.Reviewers) = StoredReviewers(last.prID)
    /\ Succeeded("ReassignReviewer") =>
         \E k \in 1..Len(last.read) :
           /\ last.read[k] = last.userID
           /\ \A j \in 1..(k - 1) : last.read[j] # last.userID
           /\ last.pr.Reviewers = [last.read EXCEPT ![k] = last.replacement]
====
